---- MODULE Hotspot ----
(* What a hotspot user touches: the RADIUS server, which answers the packets of an access server at
   once and in any order, and the captive portal with its limit of voucher attempts and the customer
   rows it makes. Nothing is a transaction: every read and write is a statement of its own. *)
EXTENDS Integers, FiniteSets, FiniteSetsExt

CONSTANTS Isps,         \* tenants that may enter the address of the access server
          Packets,      \* accounting packets, each with an authenticator of its own
          Handlers,     \* calls of handlePacket under way
          Duration,     \* duration_seconds of the plan
          LastHour,     \* bound: the clock
          MaxHandled,   \* bound: packets taken up, retransmissions included
          Visitors,     \* portal requests under way, from one address with one telephone
          Window,       \* the fifteen minutes of the portal
          AttemptLimit, \* ten attempts
          Profiles,     \* customer rows
          MaxVisits     \* bound: portal requests and customer updates

ASSUME HotspotAssumption ==
  /\ IsFiniteSet(Profiles) /\ IsFiniteSet(Isps) /\ IsFiniteSet(Handlers) /\ "access" \notin Packets
  /\ Duration \in Nat \ {0} /\ LastHour \in Nat /\ Window \in Nat \ {0}
  /\ AttemptLimit \in Nat \ {0, 1} /\ MaxHandled \in Nat /\ MaxVisits \in Nat

VARIABLES hour,         \* the clock
          nas,          \* the tenants with an enabled row of the server's address
          bound,        \* the access binding: state and expires_at
          credential,   \* radius_user_credentials: the password, and enabled
          handler,      \* the calls of handlePacket
          handled,      \* bound counter
          accounted,    \* radius_accounting_events, as tenants and counts per packet
          published,    \* packets whose domain event was enqueued
          answered,     \* packets the access server has a response to
          signedOn,     \* the session on the access server: its end, the end of the binding it was
                        \* accepted under, and whether something changed before the answer
          attempt,      \* captive_portal_voucher_attempts
          previous,     \* when the last attempt was made
          visit,        \* the portal requests
          profile,      \* customers with this telephone: none, or active or not
          edit,         \* an operator's update between its read and its write
          visits,       \* bound counter
          twofold       \* two redemptions late, or a row was made active again
radiusVars == <<nas, bound, credential, handler, handled, accounted, published, answered, signedOn>>
portalVars == <<attempt, previous, visit, profile, edit, visits, twofold>>
hotspotVars == <<hour, radiusVars, portalVars>>

------------------------
(* The limits a plan turns into. *)

\* compileNetworkPolicy and toRadiusPolicyAttributes: a missing direction takes
\* the other's speed; rounded to kilobits, never below one.
NoSpeed == -1
Kbps(bps) == Max({1, (bps + 500) \div 1000})
RadiusPolicyAttributes(p) ==
  [timeout |-> p.duration,
   interim |-> Min({300, Max({60, p.duration \div 20})}),
   limit   |-> IF p.down = NoSpeed /\ p.up = NoSpeed THEN << >>
               ELSE <<Kbps(IF p.up = NoSpeed THEN p.down ELSE p.up),
                      Kbps(IF p.down = NoSpeed THEN p.up ELSE p.down)>>]

\* The reply of handleAccessRequest computes them again, from the package as it
\* is now; a speed of zero is a missing one here.
Missing(bps) == bps \in {NoSpeed, 0}
Reply(p) ==
  [timeout |-> Max({1, p.duration}),
   interim |-> Min({300, Max({60, Max({1, p.duration}) \div 20})}),
   limit   |-> IF Missing(p.down) /\ Missing(p.up) THEN << >>
               ELSE <<Kbps(IF Missing(p.up) THEN p.down ELSE p.up),
                      Kbps(IF Missing(p.down) THEN p.up ELSE p.down)>>]

Speeds == {NoSpeed, 1, 499, 1500, 2000000}
SomePlans == [duration : {1, 1199, 1200, 1201, 6000, 86400}, down : Speeds, up : Speeds]

------------------------
NoHandler == [pc |-> "idle", isp |-> "none", packet |-> "none", until |-> 0,
              entitled |-> FALSE, overtaken |-> FALSE]
NoVisit == [pc |-> "idle", profile |-> "none"]
NoEdit == [target |-> "none", asked |-> "none", read |-> "none"]
NoSession == [end |-> 0, cover |-> 0, late |-> FALSE]

HotspotInit ==
  /\ hour = 1
  /\ nas = {}
  /\ bound = [state |-> "ACTIVE", until |-> 2]
  /\ credential = [password |-> "first", enabled |-> TRUE]
  /\ handler = [h \in Handlers |-> NoHandler] /\ handled = 0
  /\ accounted = [p \in Packets |-> [isps |-> {}, times |-> 0]]
  /\ published = {} /\ answered = {}
  /\ signedOn = NoSession
  /\ attempt = [started |-> 0, count |-> 0, blocked |-> 0] /\ previous = 0
  /\ visit = [v \in Visitors |-> NoVisit]
  /\ profile = [c \in Profiles |-> "none"]
  /\ edit = NoEdit /\ visits = 0 /\ twofold = FALSE

HourPasses == hour < LastHour /\ hour' = hour + 1

------------------------
(* RADIUS. *)

\* createNas: the address is unique for a tenant only.
CreateNas(t) ==
  /\ t \notin nas /\ nas' = nas \cup {t}
  /\ UNCHANGED <<bound, credential, handler, handled, accounted, published, answered, signedOn>>

\* Every call under way has been overtaken by a change of what it reads, or by
\* the clock.
Overtake == handler' = [h \in Handlers |-> [handler[h] EXCEPT !.overtaken = @ \/ handler[h].packet = "access"]]

\* The binding is suspended, or a purchase renews it.
ChangeBinding ==
  /\ \/ bound.state = "ACTIVE" /\ bound' = [bound EXCEPT !.state = "SUSPENDED"]
     \/ bound.until <= hour /\ bound' = [state |-> "ACTIVE", until |-> hour + Duration]
  /\ Overtake
  /\ UNCHANGED <<nas, credential, handled, accounted, published, answered, signedOn>>

\* setCredential: one statement replaces the password and enables or disables it.
SetCredential ==
  /\ credential.password = "first"
  /\ \E on \in BOOLEAN : credential' = [password |-> "second", enabled |-> on]
  /\ Overtake
  /\ UNCHANGED <<nas, bound, handled, accounted, published, answered, signedOn>>

\* handlePacket: whatever does not parse, verify or come from an address that
\* exactly one tenant has entered is dropped without an answer.  The access
\* server repeats a packet until it has a response.
TakesUp(h, packet, pc) ==
  /\ handler[h].pc = "idle" /\ handled < MaxHandled
  /\ \E t \in Isps :
       /\ nas = {t}
       /\ handler' = [handler EXCEPT ![h] = [NoHandler EXCEPT !.isp = t, !.packet = packet, !.pc = pc]]
  /\ handled' = handled + 1
  /\ UNCHANGED <<nas, bound, credential, accounted, published, answered, signedOn>>
AccessRequest(h) == TakesUp(h, "access", "binding")
AccountingRequest(h) == \E p \in Packets \ answered : TakesUp(h, p, "insert")

Goes(h, pc) == handler' = [handler EXCEPT ![h].pc = pc]
Returns(h) == handler' = [handler EXCEPT ![h] = NoHandler]

\* handleAccessRequest: the binding must be in force; then its credential.
Entitled == bound.state = "ACTIVE" /\ bound.until > hour
ReadBinding(h) ==
  /\ handler[h].pc = "binding"
  /\ handler' = [handler EXCEPT ![h].pc = IF Entitled THEN "credential" ELSE "answer",
                                ![h].until = bound.until]
  /\ UNCHANGED <<nas, bound, credential, handled, accounted, published, answered, signedOn>>

ReadCredential(h) ==
  /\ handler[h].pc = "credential"
  /\ handler' = [handler EXCEPT ![h].pc = "answer",
                   ![h].entitled = credential.enabled /\ credential.password = "first"]
  /\ UNCHANGED <<nas, bound, credential, handled, accounted, published, answered, signedOn>>

\* The answer: an Access-Accept, if it arrives, starts a session that may last
\* the whole duration of the plan, whatever is left of the binding.
Answer(h) ==
  /\ handler[h].pc = "answer"
  /\ \/ handler[h].entitled /\ signedOn' = [end |-> hour + Duration, cover |-> handler[h].until,
                                                      late |-> handler[h].overtaken]
     \/ UNCHANGED signedOn
  /\ Returns(h)
  /\ UNCHANGED <<nas, bound, credential, handled, accounted, published, answered>>

\* Mutant: the response is sent before the event is enqueued.
InsertThenAnswer(h) ==
  /\ handler[h].pc = "insert"
  /\ LET p == handler[h].packet IN
     /\ accounted' = [accounted EXCEPT ![p] = [isps |-> @.isps \cup {handler[h].isp}, times |-> @.times + 1]]
     /\ answered' = answered \cup {p}
  /\ Goes(h, "enqueue")
  /\ UNCHANGED <<nas, bound, credential, handled, published, signedOn>>

\* handleAccounting: a row for every delivery, one event per authenticator, and
\* only then the response.
InsertAccounting(h) ==
  /\ handler[h].pc = "insert"
  /\ LET p == handler[h].packet IN
     accounted' = [accounted EXCEPT ![p] = [isps |-> @.isps \cup {handler[h].isp}, times |-> @.times + 1]]
  /\ Goes(h, "enqueue")
  /\ UNCHANGED <<nas, bound, credential, handled, published, answered, signedOn>>

EnqueueAccounting(h) ==
  /\ handler[h].pc = "enqueue"
  /\ published' = published \cup {handler[h].packet}
  /\ Goes(h, "respond")
  /\ UNCHANGED <<nas, bound, credential, handled, accounted, answered, signedOn>>

Respond(h) ==
  /\ handler[h].pc = "respond"
  /\ \/ answered' = answered \cup {handler[h].packet}
     \/ UNCHANGED answered
  /\ Returns(h)
  /\ UNCHANGED <<nas, bound, credential, handled, accounted, published, signedOn>>

\* A statement fails or the process dies: no response, nothing is undone.
HandlerDies(h) ==
  /\ handler[h].pc # "idle"
  /\ Returns(h)
  /\ UNCHANGED <<nas, bound, credential, handled, accounted, published, answered, signedOn>>

\* disconnectSession: the access server ends the session, whether or not its
\* acknowledgement arrives within three seconds.
DisconnectSession ==
  /\ nas # {} /\ signedOn.end > hour
  /\ signedOn' = NoSession
  /\ UNCHANGED <<nas, bound, credential, handler, handled, accounted, published, answered>>

\* Session-Timeout is reached.
SessionTimesOut ==
  /\ HourPasses
  /\ signedOn' = IF signedOn.end <= hour' THEN NoSession ELSE signedOn
  /\ Overtake
  /\ UNCHANGED <<nas, bound, credential, handled, accounted, published, answered>>

\* What customers' sign-ons and what the accounting of their sessions involve.
AccessNext ==
  /\ \/ SessionTimesOut
     \/ /\ \/ \E t \in Isps : CreateNas(t)
           \/ ChangeBinding \/ SetCredential \/ DisconnectSession
           \/ \E h \in Handlers : \/ AccessRequest(h) \/ ReadBinding(h) \/ ReadCredential(h)
                                 \/ Answer(h) \/ HandlerDies(h)
        /\ UNCHANGED hour
  /\ UNCHANGED portalVars
AccountingNext ==
  /\ \/ \E t \in Isps : CreateNas(t)
     \/ \E h \in Handlers : \/ AccountingRequest(h) \/ InsertAccounting(h)
                           \/ EnqueueAccounting(h) \/ Respond(h) \/ HandlerDies(h)
  /\ UNCHANGED <<hour, portalVars>>

------------------------
(* The captive portal. *)

\* The one statement that counts an attempt.
Counted(a) ==
  IF a.started + Window <= hour THEN [started |-> hour, count |-> 1, blocked |-> 0]
  ELSE [started |-> a.started, count |-> a.count + 1,
        blocked |-> IF a.count + 1 >= AttemptLimit THEN hour + Window ELSE a.blocked]
Limited(a) == a.count >= AttemptLimit \/ a.blocked > hour

Spend == visits < MaxVisits /\ visits' = visits + 1

\* redeemPublicVoucher up to the limit.
RedeemPublicVoucher(v) ==
  /\ visit[v].pc = "idle" /\ Spend
  /\ attempt' = IF attempt.count = 0 THEN [started |-> hour, count |-> 1, blocked |-> 0]
                ELSE Counted(attempt)
  /\ visit' = [visit EXCEPT ![v].pc = IF Limited(attempt') THEN "idle" ELSE "lookup"]
  /\ previous' = hour
  /\ twofold' = (twofold \/ \E w \in Visitors : visit[w].pc \in {"lookup", "insert"})
  /\ UNCHANGED <<profile, edit>>

\* The oldest active customer with the telephone, or a new one.
LookUp(v) ==
  /\ visit[v].pc = "lookup"
  /\ LET own == {c \in Profiles : profile[c] = "active"} IN
     IF own = {} THEN visit' = [visit EXCEPT ![v].pc = "insert"]
     ELSE \E c \in own : visit' = [visit EXCEPT ![v] = [pc |-> "redeem", profile |-> c]]
  /\ UNCHANGED <<attempt, previous, profile, edit, visits, twofold>>

InsertProfile(v) ==
  /\ visit[v].pc = "insert"
  /\ \E c \in Profiles :
       /\ profile[c] = "none"
       /\ profile' = [profile EXCEPT ![c] = "active"]
       /\ visit' = [visit EXCEPT ![v] = [pc |-> "redeem", profile |-> c]]
  /\ UNCHANGED <<attempt, previous, edit, visits, twofold>>

\* VouchersService.redeem is called (PurchaseSettlement), or a statement before
\* it fails.
RedeemEnds(v) ==
  /\ visit[v].pc # "idle"
  /\ visit' = [visit EXCEPT ![v] = NoVisit]
  /\ UNCHANGED <<attempt, previous, profile, edit, visits, twofold>>

\* CustomersService.update reads the row, and writes all of it: what the body
\* leaves out is what was read.  deactivate is such an update.
GetProfile(c) ==
  /\ edit = NoEdit /\ profile[c] # "none" /\ Spend
  /\ \E asked \in {"none", "active", "inactive"} :
       edit' = [target |-> c, asked |-> asked, read |-> profile[c]]
  /\ UNCHANGED <<attempt, previous, visit, profile, twofold>>
UpdateProfile ==
  /\ edit # NoEdit
  /\ LET c == edit.target
         now == IF edit.asked = "none" THEN edit.read ELSE edit.asked
     IN  /\ profile' = [profile EXCEPT ![c] = now]
         /\ twofold' = (twofold \/ (profile[c] = "inactive" /\ now = "active"))
  /\ edit' = NoEdit
  /\ UNCHANGED <<attempt, previous, visit, visits>>

PortalNext ==
  \/ SessionTimesOut /\ UNCHANGED portalVars
  \/ /\ \/ \E v \in Visitors :
             RedeemPublicVoucher(v) \/ LookUp(v) \/ InsertProfile(v) \/ RedeemEnds(v)
        \/ \E c \in Profiles : GetProfile(c)
        \/ UpdateProfile
     /\ UNCHANGED <<hour, radiusVars>>

HotspotNext == AccessNext \/ AccountingNext \/ PortalNext
HotspotSpec == HotspotInit /\ [][HotspotNext]_hotspotVars

------------------------
(* Properties. *)

HotspotTypeOK ==
  /\ nas \subseteq Isps /\ answered \subseteq Packets /\ published \subseteq Packets
  /\ \A p \in Packets : accounted[p].isps \subseteq Isps /\ accounted[p].times \in 0 .. MaxHandled
  /\ profile \in [Profiles -> {"none", "active", "inactive"}]

\* A packet the access server has a response to is in the accounting and its
\* event is in the outbox: nothing is acknowledged that a crash could lose.
AnsweredIsRecorded ==
  \A p \in answered : accounted[p].times > 0 /\ p \in published

\* An address two tenants have entered is nobody's: what it sent is never
\* recorded for the one and for the other.
OneIspPerAddress == Cardinality(UNION {accounted[p].isps : p \in Packets}) <= 1

\* A session outlives the binding it was accepted under by less than one
\* duration of the plan, unless something changed before the answer.
OverrunIsBounded ==
  signedOn.end > 0 /\ ~signedOn.late => signedOn.end < signedOn.cover + Duration

\* An Access-Accept goes to somebody entitled at that moment, unless the
\* binding, the credential or the hour changed after the packet came.
AcceptedIsEntitled ==
  \A h \in Handlers :
    handler[h].pc = "answer" /\ handler[h].entitled /\ ~handler[h].overtaken =>
      Entitled /\ credential.enabled

\* The two places that turn a plan into RADIUS attributes agree on every plan
\* whose speeds are positive or missing.
LimitsAgree == \A p \in SomePlans : Reply(p) = RadiusPolicyAttributes(p)

\* Somebody who waits out the window after his last attempt is let in.
PatienceIsRewarded ==
  \A v \in Visitors :
    attempt.count > 0 /\ previous + Window <= hour => ~Limited(Counted(attempt))

\* The time a block is written for never refuses anybody by itself.
BlockIsTheCount == attempt.count > 0 => (Limited(Counted(attempt)) <=> Counted(attempt).count >= AttemptLimit)

\* The portal makes a second active customer of a telephone only when two
\* redemptions cross or an operator makes a row active again.
OneProfilePerPhone == ~twofold => Cardinality({c \in Profiles : profile[c] = "active"}) <= 1

\* A customer who was deactivated becomes active only by a request that says so
\* or that had read the row before.
DeactivationSticks ==
  [][\A c \in Profiles : profile[c] = "inactive" /\ profile'[c] = "active" =>
       edit.target = c /\ (edit.asked = "active" \/ edit.read = "active")]_hotspotVars

\* What the access server and the portal's visitors are told agrees with what is
\* recorded and with what they are entitled to.
HotspotHolds ==
  /\ [](/\ HotspotTypeOK /\ AnsweredIsRecorded /\ OneIspPerAddress /\ OverrunIsBounded
         /\ AcceptedIsEntitled /\ LimitsAgree /\ PatienceIsRewarded /\ BlockIsTheCount
         /\ OneProfilePerPhone)
  /\ DeactivationSticks
====
