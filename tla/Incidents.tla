---- MODULE Incidents ----
(* Incidents: routers the stale check takes OFFLINE, synthetic monitors that fail twice,
   acknowledgement and resolution, the escalation worker and the maintenance windows that keep it
   quiet. Every change is announced by an event enqueued after the transaction has committed: the
   step in between is where a crash or a failed statement bites. The outbox of the events is the
   one of DomainEvents; here only which keys reached it matters. *)
EXTENDS Naturals, FiniteSets

CONSTANTS
  Routers, Monitors,
  IncidentIds,
  MaxLevel,            \* escalation levels (3 in the code)
  MaxIncidentFaults,   \* bound: crashes and failed statements
  MaxUpsets,           \* bound: how often a root goes bad
  NoIncident

VARIABLES
  rstatus,     \* routers.status
  reported,    \* ghost: routers whose latest heartbeat itself said OFFLINE
  silent,      \* routers without a heartbeat for five minutes
  results,     \* the last two results of each monitor, the latest first
  enabled,     \* monitors that are checked
  incident,    \* incidents by id
  marking,     \* routers marked OFFLINE and not synchronised yet
  beating,     \* routers whose ONLINE heartbeat has not resolved anything yet
  checked,     \* monitors whose result is saved and not correlated yet
  recovering,  \* resolved incidents whose impacts are not RECOVERED yet
  telling,     \* events committed changes still have to enqueue
  outbox,      \* events enqueued
  window,      \* the maintenance window: status, time and scope
  incidentFaults, upsets

routerVars == <<rstatus, reported, silent, marking, beating>>
monitorVars == <<results, enabled, checked>>
incidentVars == <<routerVars, monitorVars, incident, recovering, telling, outbox, window,
                  incidentFaults, upsets>>

HeartbeatStatuses == {"ONLINE", "DEGRADED", "OFFLINE"}
Roots == Routers \cup Monitors
Active == {"OPEN", "ACKNOWLEDGED"}
IncidentRow ==
  [root : Roots, status : Active \cup {"RESOLVED"}, level : 0 .. MaxLevel, quiet : BOOLEAN,
   impacts : {"none", "AFFECTED", "RECOVERED"}, by : {"none", "operator", "recovery"}]

ASSUME IncidentAssumption ==
  /\ MaxLevel \in Nat /\ MaxIncidentFaults \in Nat /\ MaxUpsets \in Nat
  /\ Routers \cap Monitors = {} /\ NoIncident \notin IncidentRow

Rows == {i \in IncidentIds : incident[i] # NoIncident}
ActiveOf(root) == {i \in Rows : incident[i].root = root /\ incident[i].status \in Active}

Opened(i) == <<"opened", i, 0>>
Escalated(i, n) == <<"escalation", i, n>>
Resolved(i) == <<"resolved", i, 0>>
IncidentKeys == {"opened", "escalation", "resolved"} \X IncidentIds \X (0 .. MaxLevel)

IncidentTypeOK ==
  /\ rstatus \in [Routers -> HeartbeatStatuses] /\ reported \subseteq Routers
  /\ silent \subseteq Routers /\ marking \subseteq Routers /\ beating \subseteq Routers
  /\ results \in [Monitors -> {"PASS", "FAIL"} \X {"PASS", "FAIL"}]
  /\ enabled \subseteq Monitors /\ checked \subseteq Monitors
  /\ incident \in [IncidentIds -> IncidentRow \cup {NoIncident}]
  /\ recovering \subseteq IncidentIds
  /\ telling \subseteq IncidentKeys /\ outbox \subseteq IncidentKeys
  /\ window \in [status : {"none", "PLANNED", "ACTIVE", "COMPLETED", "CANCELED"},
                 time : {"before", "during", "after"}, scope : SUBSET Roots]
  /\ incidentFaults \in 0 .. MaxIncidentFaults /\ upsets \in 0 .. MaxUpsets

IncidentInit ==
  /\ rstatus = [r \in Routers |-> "ONLINE"] /\ reported = {} /\ silent = {} /\ marking = {} /\ beating = {}
  /\ results = [m \in Monitors |-> <<"PASS", "PASS">>] /\ enabled = Monitors /\ checked = {}
  /\ incident = [i \in IncidentIds |-> NoIncident]
  /\ recovering = {} /\ telling = {} /\ outbox = {}
  /\ window = [status |-> "none", time |-> "before", scope |-> {}]
  /\ incidentFaults = 0 /\ upsets = 0

InMaintenance(root) ==
  window.status \in {"PLANNED", "ACTIVE"} /\ window.time = "during" /\ root \in window.scope

------------------------
(* Routers. *)

Upset == upsets < MaxUpsets /\ upsets' = upsets + 1

(* Environment. Five minutes outlast a heartbeat request. *)
FallSilent(r) ==
  /\ Upset /\ r \notin silent \cup beating /\ silent' = silent \cup {r}
  /\ UNCHANGED <<rstatus, reported, marking, beating, monitorVars, incident, recovering, telling,
                 outbox, window, incidentFaults>>

(* The status commits, the OFFLINE of a router that says so itself too; only ONLINE goes on to
   resolve the incident, and OFFLINE opens none. *)
\* Mutant: only a change of the status resolves.
HeartbeatOfChange(r, s) ==
  /\ rstatus' = [rstatus EXCEPT ![r] = s] /\ silent' = silent \ {r}
  /\ s = "OFFLINE" => Upset
  /\ s # "OFFLINE" => UNCHANGED upsets
  /\ reported' = IF s = "OFFLINE" THEN reported \cup {r} ELSE reported \ {r}
  /\ beating' = IF s = "ONLINE" /\ rstatus[r] # "ONLINE" THEN beating \cup {r} ELSE beating
  /\ UNCHANGED <<marking, monitorVars, incident, recovering, telling, outbox, window, incidentFaults>>
Heartbeat(r, s) ==
  /\ rstatus' = [rstatus EXCEPT ![r] = s] /\ silent' = silent \ {r}
  /\ s = "OFFLINE" => Upset
  /\ s # "OFFLINE" => UNCHANGED upsets
  /\ reported' = IF s = "OFFLINE" THEN reported \cup {r} ELSE reported \ {r}
  /\ beating' = IF s = "ONLINE" THEN beating \cup {r} ELSE beating
  /\ UNCHANGED <<marking, monitorVars, incident, recovering, telling, outbox, window, incidentFaults>>

(* markOfflineStale: one UPDATE for all, then one transaction for each. *)
MarkOffline ==
  /\ LET stale == {r \in silent : rstatus[r] # "OFFLINE"}
     IN /\ stale # {} /\ marking' = marking \cup stale
        /\ rstatus' = [r \in Routers |-> IF r \in stale THEN "OFFLINE" ELSE rstatus[r]]
  /\ UNCHANGED <<reported, silent, beating, monitorVars, incident, recovering, telling, outbox, window,
                 incidentFaults, upsets>>

Fresh(root, quiet, impacts) ==
  [root |-> root, status |-> "OPEN", level |-> 0, quiet |-> quiet, impacts |-> impacts, by |-> "none"]

(* syncRouterOffline: the active incident of the router gets its impacts anew, or one is opened,
   which is announced outside maintenance. That two calls open only one is left to the unique
   fingerprint of active incidents. *)
\* Mutant: maintenance hides the incident, not only its announcement.
SyncIncidentOutsideMaintenance(r) ==
  IF InMaintenance(r) THEN UNCHANGED <<incident, telling>>
  ELSE \/ /\ \E i \in ActiveOf(r) : incident' = [incident EXCEPT ![i].impacts = "AFFECTED"]
          /\ UNCHANGED telling
       \/ /\ ActiveOf(r) = {}
          /\ \E i \in IncidentIds \ Rows : /\ incident' = [incident EXCEPT ![i] = Fresh(r, FALSE, "AFFECTED")]
                                           /\ telling' = telling \cup {Opened(i)}
SyncIncident(r) ==
  \/ /\ \E i \in ActiveOf(r) : incident' = [incident EXCEPT ![i].impacts = "AFFECTED"]
     /\ UNCHANGED telling
  \/ /\ ActiveOf(r) = {}
     /\ \E i \in IncidentIds \ Rows :
          /\ incident' = [incident EXCEPT ![i] = Fresh(r, InMaintenance(r), "AFFECTED")]
          /\ telling' = IF InMaintenance(r) THEN telling ELSE telling \cup {Opened(i)}

SyncMarked(r) ==
  /\ r \in marking /\ marking' = marking \ {r} /\ SyncIncident(r)
  /\ UNCHANGED <<rstatus, reported, silent, beating, monitorVars, recovering, outbox, window,
                 incidentFaults, upsets>>

(* The operator's request says that a router is offline, whatever it reports. *)
SyncByHand(r) ==
  /\ Upset /\ SyncIncident(r)
  /\ UNCHANGED <<routerVars, monitorVars, recovering, outbox, window, incidentFaults>>

Close(i, by) == incident' = [incident EXCEPT ![i].status = "RESOLVED", ![i].by = by]

(* resolveRouterOffline: status, impacts and event are statements of their own. *)
ResolveRouter(r) ==
  /\ r \in beating /\ beating' = beating \ {r}
  /\ \/ /\ \E i \in ActiveOf(r) : Close(i, "recovery") /\ recovering' = recovering \cup {i}
     \/ ActiveOf(r) = {} /\ UNCHANGED <<incident, recovering>>
  /\ UNCHANGED <<rstatus, reported, silent, marking, monitorVars, telling, outbox, window,
                 incidentFaults, upsets>>

RecoverImpacts(i) ==
  /\ i \in recovering /\ recovering' = recovering \ {i}
  /\ incident' = [incident EXCEPT ![i].impacts = IF @ = "AFFECTED" THEN "RECOVERED" ELSE @]
  /\ telling' = IF incident[i].by = "recovery" THEN telling \cup {Resolved(i)} ELSE telling
  /\ UNCHANGED <<routerVars, monitorVars, outbox, window, incidentFaults, upsets>>

------------------------
(* Synthetic monitors. *)

(* checkAndRecord: the result is saved, and correlated in a transaction of its own. A failing
   target is the environment's. *)
Check(m, s) ==
  /\ m \in enabled /\ m \notin checked
  /\ s = "FAIL" /\ results[m][1] = "PASS" => Upset
  /\ ~(s = "FAIL" /\ results[m][1] = "PASS") => UNCHANGED upsets
  /\ results' = [results EXCEPT ![m] = <<s, @[1]>>] /\ checked' = checked \cup {m}
  /\ UNCHANGED <<routerVars, enabled, incident, recovering, telling, outbox, window, incidentFaults>>

(* syncSyntheticIncident: two failures in a row open an incident or find it open, and announce it
   again each time; a pass resolves it. *)
Correlate(m) ==
  /\ m \in checked /\ checked' = checked \ {m}
  /\ \/ /\ results[m] = <<"FAIL", "FAIL">>
        /\ \E i \in IF ActiveOf(m) = {} THEN IncidentIds \ Rows ELSE ActiveOf(m) :
             /\ incident' = IF i \in Rows THEN incident
                            ELSE [incident EXCEPT ![i] = Fresh(m, FALSE, "none")]
             /\ telling' = telling \cup {Opened(i)}
     \/ /\ results[m][1] = "PASS"
        /\ \E i \in ActiveOf(m) : Close(i, "recovery") /\ telling' = telling \cup {Resolved(i)}
     \/ /\ results[m] = <<"FAIL", "PASS">> \/ (results[m][1] = "PASS" /\ ActiveOf(m) = {})
        /\ UNCHANGED <<incident, telling>>
  /\ UNCHANGED <<routerVars, results, enabled, recovering, outbox, window, incidentFaults, upsets>>

SetEnabled(m) ==
  /\ enabled' = IF m \in enabled THEN enabled \ {m} ELSE enabled \cup {m}
  /\ m \in enabled => Upset
  /\ m \notin enabled => UNCHANGED upsets
  /\ UNCHANGED <<routerVars, results, checked, incident, recovering, telling, outbox, window, incidentFaults>>

------------------------
(* Operators, escalation, maintenance. *)

Acknowledge(i) ==
  /\ i \in Rows /\ incident[i].status = "OPEN"
  /\ incident' = [incident EXCEPT ![i].status = "ACKNOWLEDGED"]
  /\ UNCHANGED <<routerVars, monitorVars, recovering, telling, outbox, window, incidentFaults, upsets>>

Resolve(i) ==
  /\ i \in Rows /\ incident[i].status \in Active
  /\ Close(i, "operator") /\ recovering' = recovering \cup {i}
  /\ UNCHANGED <<routerVars, monitorVars, telling, outbox, window, incidentFaults, upsets>>

(* tick, under an advisory lock kept until the events of the batch are enqueued: the next levels
   commit together. *)
DueForEscalation(i) ==
  incident[i].status \in Active /\ incident[i].level < MaxLevel /\ ~InMaintenance(incident[i].root)

Escalate ==
  /\ \A k \in telling : k[1] # "escalation"
  /\ \E due \in SUBSET {i \in Rows : DueForEscalation(i)} :
       /\ due # {}
       /\ incident' = [i \in IncidentIds |-> IF i \in due THEN [incident[i] EXCEPT !.level = @ + 1]
                                             ELSE incident[i]]
       /\ telling' = telling \cup {Escalated(i, incident[i].level + 1) : i \in due}
  /\ UNCHANGED <<routerVars, monitorVars, recovering, outbox, window, incidentFaults, upsets>>

(* The scope of a window: the tenant, a site's routers or one router. *)
CreateWindow ==
  /\ window.status = "none"
  /\ \E scope \in {Roots} \cup SUBSET Routers :
       /\ scope # {} /\ window' = [status |-> "PLANNED", time |-> "before", scope |-> scope]
  /\ UNCHANGED <<routerVars, monitorVars, incident, recovering, telling, outbox, incidentFaults, upsets>>

CancelWindow ==
  /\ window.status \in {"PLANNED", "ACTIVE"} /\ window' = [window EXCEPT !.status = "CANCELED"]
  /\ UNCHANGED <<routerVars, monitorVars, incident, recovering, telling, outbox, incidentFaults, upsets>>

(* starts_at and ends_at pass. *)
WindowClock ==
  /\ window.status # "none" /\ window.time # "after"
  /\ window' = [window EXCEPT !.time = IF @ = "before" THEN "during" ELSE "after"]
  /\ UNCHANGED <<routerVars, monitorVars, incident, recovering, telling, outbox, incidentFaults, upsets>>

(* MaintenanceWindowWorker.tick. *)
WindowTick ==
  /\ \/ window.status = "PLANNED" /\ window.time = "during"
        /\ window' = [window EXCEPT !.status = "ACTIVE"]
     \/ window.status \in {"PLANNED", "ACTIVE"} /\ window.time = "after"
        /\ window' = [window EXCEPT !.status = "COMPLETED"]
  /\ UNCHANGED <<routerVars, monitorVars, incident, recovering, telling, outbox, incidentFaults, upsets>>

------------------------
(* Events and faults. *)

Tell(k) ==
  /\ k \in telling /\ telling' = telling \ {k} /\ outbox' = outbox \cup {k}
  /\ UNCHANGED <<routerVars, monitorVars, incident, recovering, window, incidentFaults, upsets>>

IncidentFault == incidentFaults < MaxIncidentFaults /\ incidentFaults' = incidentFaults + 1

(* An enqueue fails. The escalation worker and the monitors go on; a failed announcement of a
   router ends the loop over the marked ones. *)
TellFails(k) ==
  /\ IncidentFault /\ k \in telling /\ telling' = telling \ {k}
  /\ marking' \in {marking, IF k[1] = "opened" THEN {} ELSE marking}
  /\ UNCHANGED <<rstatus, reported, silent, beating, monitorVars, incident, recovering, outbox,
                 window, upsets>>

(* The process dies: every call under way is lost, what committed stays. *)
IncidentCrash ==
  /\ IncidentFault /\ marking' = {} /\ beating' = {} /\ checked' = {} /\ recovering' = {} /\ telling' = {}
  /\ UNCHANGED <<rstatus, reported, silent, results, enabled, incident, outbox, window, upsets>>

IncidentNext ==
  \/ \E r \in Routers : \/ FallSilent(r) \/ SyncMarked(r) \/ SyncByHand(r) \/ ResolveRouter(r)
                        \/ \E s \in HeartbeatStatuses : Heartbeat(r, s)
  \/ \E m \in Monitors : Correlate(m) \/ SetEnabled(m) \/ \E s \in {"PASS", "FAIL"} : Check(m, s)
  \/ \E i \in IncidentIds : RecoverImpacts(i) \/ Acknowledge(i) \/ Resolve(i)
  \/ MarkOffline \/ Escalate \/ CreateWindow \/ CancelWindow \/ WindowClock \/ WindowTick
  \/ (\E k \in telling : Tell(k) \/ TellFails(k)) \/ IncidentCrash

IncidentSpec == IncidentInit /\ [][IncidentNext]_incidentVars

------------------------
(* The public status page: settings, components, and what of incidents and maintenance is
   public. Of the rows the page reads only what it shows is kept, for several tenants. A request
   reads the settings, then three tables at its own three moments. *)
CONSTANTS PageTenants, Slugs, MaxStatusEdits

ASSUME StatusAssumption == Slugs # {} /\ MaxStatusEdits \in Nat

VARIABLES
  page,         \* status_page_settings by tenant
  board,        \* the component, the incident and the window of each tenant
  visit,        \* the request for the page: its tenant, what is still unread, what was read
  sure, seen,   \* ghosts: troubles public all through the visit, at some time of it
  statusEdits

statusVars == <<page, board, visit, sure, seen, statusEdits>>

Health == {"OPERATIONAL", "MAINTENANCE", "DEGRADED", "PARTIAL_OUTAGE", "MAJOR_OUTAGE"}
Tables == {"components", "incidents", "maintenance"}
NoVisit == [phase |-> "none"]

StatusTypeOK ==
  /\ page \in [PageTenants -> [slug : Slugs \cup {"none"}, published : BOOLEAN]]
  /\ board \in [PageTenants ->
       [component : Health, outage : {"none", "minor", "critical", "resolved"}, shown : BOOLEAN,
        works : {"none", "PLANNED", "ACTIVE", "COMPLETED", "CANCELED"},
        time : {"before", "during", "after"}, public : BOOLEAN]]
  /\ statusEdits \in 0 .. MaxStatusEdits

StatusInit ==
  /\ LET first == CHOOSE t \in PageTenants : TRUE
     IN page = [t \in PageTenants |-> [slug |-> IF t = first THEN CHOOSE g \in Slugs : TRUE ELSE "none",
                                       published |-> t = first]]
  /\ board = [t \in PageTenants |-> [component |-> "OPERATIONAL", outage |-> "none", shown |-> FALSE,
                                     works |-> "none", time |-> "before", public |-> FALSE]]
  /\ visit = NoVisit /\ sure = {} /\ seen = {} /\ statusEdits = 0

\* What the page owes its readers of tenant t, and what it may tell them: a public
\* window is announced before it begins.
Outage(t) == IF board[t].shown /\ board[t].outage \in {"minor", "critical"} THEN {board[t].outage} ELSE {}
Broken(t) == {board[t].component} \ {"OPERATIONAL"}
WorksListed(t) == board[t].public /\ board[t].works \in {"PLANNED", "ACTIVE"} /\ board[t].time # "after"
Announcements(t) == Outage(t) \cup Broken(t) \cup IF WorksListed(t) THEN {"works"} ELSE {}
Troubles(t) == Announcements(t) \ IF board[t].time = "during" THEN {} ELSE {"works"}

(* updateStatusPageSettings: a slug that another tenant has is a 409. *)
UpdateSettings(t, g, published) ==
  /\ \A u \in PageTenants \ {t} : page[u].slug # g
  /\ page' = [page EXCEPT ![t] = [slug |-> g, published |-> published]] /\ UNCHANGED board

Post(t, row) == board' = [board EXCEPT ![t] = row] /\ UNCHANGED page

UpdateComponent(t, h) == Post(t, [board[t] EXCEPT !.component = h])

(* Nothing is published without a summary. *)
SetPublicVisibility(t, visible, summary) ==
  /\ board[t].outage # "none" /\ visible => summary
  /\ Post(t, [board[t] EXCEPT !.shown = visible])

(* Incidents and windows move as above: an incident starts out of sight, a window is public or not
   from its creation on. *)
OutageMoves(t) ==
  \/ board[t].outage = "none" /\ \E o \in {"minor", "critical"} : Post(t, [board[t] EXCEPT !.outage = o])
  \/ board[t].outage \in {"minor", "critical"} /\ Post(t, [board[t] EXCEPT !.outage = "resolved"])

WorksMove(t) ==
  LET b == board[t] IN
  \/ b.works = "none" /\ \E p \in BOOLEAN : Post(t, [b EXCEPT !.works = "PLANNED", !.public = p])
  \/ b.works \in {"PLANNED", "ACTIVE"} /\ Post(t, [b EXCEPT !.works = "CANCELED"])
  \/ b.works # "none" /\ b.time = "before" /\ Post(t, [b EXCEPT !.time = "during"])
  \/ b.works # "none" /\ b.time = "during" /\ Post(t, [b EXCEPT !.time = "after"])
  \/ b.works = "PLANNED" /\ b.time = "during" /\ Post(t, [b EXCEPT !.works = "ACTIVE"])
  \/ b.works \in {"PLANNED", "ACTIVE"} /\ b.time = "after" /\ Post(t, [b EXCEPT !.works = "COMPLETED"])

EditStatus ==
  /\ visit.phase # "answered" /\ statusEdits < MaxStatusEdits /\ statusEdits' = statusEdits + 1
  /\ \E t \in PageTenants :
       \/ \E g \in Slugs, b \in BOOLEAN : UpdateSettings(t, g, b)
       \/ \E h \in Health : UpdateComponent(t, h)
       \/ \E b, s \in BOOLEAN : SetPublicVisibility(t, b, s)
       \/ OutageMoves(t) \/ WorksMove(t)
  /\ UNCHANGED visit
  /\ sure' = IF visit = NoVisit THEN {} ELSE sure \cap Troubles(visit.tenant)'
  /\ seen' = IF visit = NoVisit THEN {} ELSE seen \cup Announcements(visit.tenant)'

(* getPublicStatus: no published page of that slug is a 404. *)
OpenStatusPage(g) ==
  /\ visit = NoVisit
  /\ \E t \in PageTenants :
       /\ page[t].slug = g /\ page[t].published
       /\ visit' = [phase |-> "reading", tenant |-> t, unread |-> Tables,
                    component |-> "OPERATIONAL", outage |-> {}, works |-> "none"]
       /\ sure' = Troubles(t) /\ seen' = Announcements(t)
  /\ UNCHANGED <<page, board, statusEdits>>

ReadTable(table) ==
  /\ visit.phase = "reading" /\ table \in visit.unread
  /\ LET t == visit.tenant IN
       visit' = [visit EXCEPT !.unread = @ \ {table},
         !.component = IF table = "components" THEN board[t].component ELSE @,
         !.outage = IF table = "incidents" THEN Outage(t) ELSE @,
         !.works = IF table = "maintenance" /\ WorksListed(t) THEN board[t].works ELSE @]
  /\ UNCHANGED <<page, board, sure, seen, statusEdits>>

(* A window that was read as PLANNED counts if it has begun by now. *)
OverallStatus ==
  LET begun == visit.works = "ACTIVE" \/ (visit.works = "PLANNED" /\ board[visit.tenant].time # "before")
  IN IF "critical" \in visit.outage THEN "MAJOR_OUTAGE" ELSE IF begun THEN "MAINTENANCE"
     ELSE IF "minor" \in visit.outage THEN "DEGRADED" ELSE visit.component

AnswerStatus ==
  /\ visit.phase = "reading" /\ visit.unread = {}
  /\ visit' = [phase |-> "answered", tenant |-> visit.tenant, overall |-> OverallStatus]
  /\ UNCHANGED <<page, board, sure, seen, statusEdits>>

StatusNext == EditStatus \/ AnswerStatus \/ (\E g \in Slugs : OpenStatusPage(g)) \/ \E x \in Tables : ReadTable(x)

(* The three tables are read at three moments, and yet the page calls no tenant operational that had
   one public trouble all through the request, hides no critical incident, and tells of nothing that
   was not made public. *)
SaysOf(x) == IF x = "critical" THEN "MAJOR_OUTAGE" ELSE IF x = "works" THEN "MAINTENANCE"
             ELSE IF x = "minor" THEN "DEGRADED" ELSE x
StatusPageIsTrue ==
  /\ \A t, u \in PageTenants : page[t].slug = page[u].slug /\ t # u => page[t].slug = "none"
  /\ visit.phase = "answered" =>
       /\ visit.overall = "OPERATIONAL" => sure = {}
       /\ "critical" \in sure => visit.overall = "MAJOR_OUTAGE"
       /\ visit.overall # "OPERATIONAL" => \E x \in seen : SaysOf(x) = visit.overall

------------------------
(* Properties. *)

Announced(k) == k \in outbox \cup telling

(* Without a crash or a failed statement nothing goes unannounced: not the opening (unless
   maintenance keeps it quiet), not one escalation level, not a recovery; and no resolved incident
   keeps AFFECTED impacts. *)
OnlyAFaultLosesAnnouncement ==
  incidentFaults = 0 =>
    \A i \in Rows :
      /\ ~incident[i].quiet => Announced(Opened(i))
      /\ \A n \in 1 .. incident[i].level : Announced(Escalated(i, n))
      /\ incident[i].by = "recovery" => i \in recovering \/ Announced(Resolved(i))
      /\ incident[i].status = "RESOLVED" => i \in recovering \/ incident[i].impacts # "AFFECTED"

(* A router that is OFFLINE has an active incident, or the one who marked it is at it, or an
   operator closed it, or the call that marked it failed, or the router said so itself: of that
   heartbeat nothing opens an incident. *)
OfflineIsKnown ==
  \A r \in Routers : rstatus[r] = "OFFLINE" =>
    \/ r \in marking \cup reported \/ ActiveOf(r) # {} \/ incidentFaults > 0
    \/ \E i \in Rows : incident[i].root = r /\ incident[i].by = "operator"

(* Every event in the outbox or on its way is about what happened: no escalation beyond the
   incident's level, no recovery of an active incident. *)
EventsAreTrue ==
  \A k \in outbox \cup telling :
    /\ k[2] \in Rows
    /\ k[1] = "escalation" => k[3] \in 1 .. incident[k[2]].level
    /\ k[1] = "resolved" => incident[k[2]].status = "RESOLVED" /\ incident[k[2]].by = "recovery"

(* While a monitor is enabled and failing its incident is announced in the end, whatever was lost
   before: each failing check enqueues it again. *)
SyntheticIsAnnounced ==
  \A m \in Monitors, i \in IncidentIds :
    i \in ActiveOf(m) ~> Opened(i) \in outbox \/ i \notin ActiveOf(m) \/ m \notin enabled

(* A router that stays ONLINE does not stay in an incident. *)
OutageEnds == \A r \in Routers : <>[](rstatus[r] = "ONLINE") => []<>(ActiveOf(r) = {})
====
