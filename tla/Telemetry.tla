---- MODULE Telemetry ----
(* The collector (traffic-collector.service.ts) reads the clients of a router through its vendor's
   adapter, page by page or site by site, while clients come, go and roam; counts them, and records
   the counter of each one as a sample of the session that it matches, if any.  A throughput
   is the difference of two samples of a session. *)
EXTENDS Integers, SequencesExt, FiniteSetsExt

CONSTANTS
  Collectors,    \* processes with the timer
  Clients,       \* each by its MAC
  Addresses,     \* what the router leases
  Username,      \* the name that a client logs in with
  SessionRows,   \* sessions of the router, by what they were opened with
  Listings,      \* the ways vendors list clients that are considered
  PageSize,
  MaxPages,      \* after which an adapter gives up
  NumSites,      \* sites of a controller, or radios of a device
  MaxChurn,      \* bound on clients that come, go or roam
  MaxReadings,   \* bound on collections
  MaxTraffic,    \* bound on steps of the counters
  MaxCollectFaults

Sites == 1..NumSites
Nobody == "nobody"

ASSUME TelemetryAssumption ==
  /\ PageSize \in Nat \ {0} /\ NumSites \in Nat \ {0}
  /\ IsFiniteSet(Clients) /\ Nobody \notin Collectors
  /\ \A s \in SessionRows : DOMAIN s = {"mac", "address", "username"}

VARIABLES
  clientListing,       \* how the vendor of this router lists clients
  listed,        \* the clients as the vendor orders them: [client, site]
  lease,         \* the address of a client
  trafficCounter,       \* what the vendor counts for a client since it came
  transferred,       \* what the client really transferred
  advisoryLock,  \* the process whose connection holds the lock, or Nobody
  reading,       \* the locals of each collection
  routerRow,       \* the row of the router
  samples,       \* the samples of each session, by sampled_at, each with its client
  sampleClock,
  churn, readings, collectFaults, lostLocks

clientsVars == <<clientListing, listed, lease, trafficCounter, transferred, churn>>
recordsVars == <<routerRow, samples, sampleClock>>
collectorBounds == <<readings, collectFaults, lostLocks>>
telemetryVars == <<clientsVars, advisoryLock, reading, recordsVars, collectorBounds>>

NotReading == [at |-> "idle", page |-> 1, got |-> << >>, left |-> << >>, sessions |-> {},
               sampledAt |-> 0, stayed |-> {}, departures |-> 0, arrivals |-> 0]

ListedClients == {listed[i].client : i \in DOMAIN listed}
ReadClients(c) == {reading[c].got[i].client : i \in DOMAIN reading[c].got}

TelemetryInit ==
  /\ clientListing \in Listings
  /\ \E order \in SetToSeqs(Clients) : \E n \in 0..Len(order) :
       listed = [i \in 1..n |-> [client |-> order[i], site |-> 1 + (i % NumSites)]]
  /\ lease \in [Clients -> Addresses]
  /\ trafficCounter = [k \in Clients |-> 0] /\ transferred = [k \in Clients |-> 0]
  /\ advisoryLock = Nobody /\ reading = [c \in Collectors |-> NotReading]
  /\ routerRow = [status |-> "ONLINE", active_users |-> 0]
  /\ samples = [s \in SessionRows |-> << >>]
  /\ sampleClock = 0 /\ churn = 0 /\ readings = 0 /\ collectFaults = 0 /\ lostLocks = 0

------------------------
(* The clients. *)

\* A client that comes is leased an address, maybe one that another had.
Come(k, first) ==
  /\ churn < MaxChurn /\ churn' = churn + 1 /\ k \notin ListedClients
  /\ \E s \in Sites :
       listed' = IF first THEN <<[client |-> k, site |-> s]>> \o listed ELSE Append(listed, [client |-> k, site |-> s])
  /\ trafficCounter' = [trafficCounter EXCEPT ![k] = 0]
  /\ \E a \in Addresses \ {lease[j] : j \in ListedClients} : lease' = [lease EXCEPT ![k] = a]
  /\ reading' = [c \in Collectors |-> [reading[c] EXCEPT !.arrivals = @ + 1]]
  /\ UNCHANGED <<clientListing, transferred, advisoryLock, recordsVars, collectorBounds>>

Leaves(k) ==
  /\ churn < MaxChurn /\ churn' = churn + 1 /\ k \in ListedClients
  /\ \E i \in DOMAIN listed : listed[i].client = k /\ listed' = RemoveAt(listed, i)
  /\ reading' = [c \in Collectors |-> [reading[c] EXCEPT !.departures = @ + 1, !.stayed = @ \ {k}]]
  /\ UNCHANGED <<clientListing, lease, trafficCounter, transferred, advisoryLock, recordsVars, collectorBounds>>

\* To another site, in the same place of the list.
Roams(i) ==
  /\ churn < MaxChurn /\ churn' = churn + 1
  /\ \E s \in Sites \ {listed[i].site} : listed' = [listed EXCEPT ![i].site = s]
  /\ reading' = [c \in Collectors |-> [reading[c] EXCEPT !.departures = @ + 1, !.arrivals = @ + 1]]
  /\ UNCHANGED <<clientListing, lease, trafficCounter, transferred, advisoryLock, recordsVars, collectorBounds>>

Transfer(k) ==
  /\ k \in ListedClients /\ transferred[k] < MaxTraffic
  /\ trafficCounter' = [trafficCounter EXCEPT ![k] = @ + 1] /\ transferred' = [transferred EXCEPT ![k] = @ + 1]
  /\ UNCHANGED <<clientListing, listed, lease, advisoryLock, reading, recordsVars, churn, collectorBounds>>

------------------------
(* Reading. *)

CountsPages == clientListing \in {"offset and total", "page of pages", "until a short page"}
PagesInAll == (Len(listed) + PageSize - 1) \div PageSize

\* The places of the list that a request answers with: a page, a site, or all.
PlacesOf(p) == {i \in DOMAIN listed :
  \/ CountsPages /\ (p - 1) * PageSize < i /\ i <= p * PageSize
  \/ clientListing = "site by site" /\ listed[i].site = p
  \/ clientListing = "whole"}
InOrder(places) == [j \in 1..Cardinality(places) |-> CHOOSE i \in places : Cardinality({m \in places : m <= i}) = j]
Portion(p) == [j \in 1..Cardinality(PlacesOf(p)) |-> listed[InOrder(PlacesOf(p))[j]]]

\* Mutant: the last page announced is not read.
IsLastEarly(p, rows, got) ==
  \/ CountsPages /\ Len(rows) < PageSize
  \/ clientListing = "offset and total" /\ Len(got) >= Len(listed)
  \/ clientListing = "page of pages" /\ p + 1 >= PagesInAll
  \/ clientListing = "site by site" /\ p = NumSites
  \/ clientListing = "whole"
IsLast(p, rows, got) ==
  \/ CountsPages /\ Len(rows) < PageSize
  \/ clientListing = "offset and total" /\ Len(got) >= Len(listed)
  \/ clientListing = "page of pages" /\ p >= PagesInAll
  \/ clientListing = "site by site" /\ p = NumSites
  \/ clientListing = "whole"

\* The timer of a process whose last collection is over tries the lock.
CollectAll(c) ==
  /\ reading[c].at = "idle" /\ advisoryLock = Nobody
  /\ readings < MaxReadings /\ readings' = readings + 1
  /\ advisoryLock' = c
  /\ reading' = [reading EXCEPT ![c] = [NotReading EXCEPT !.at = "read", !.stayed = ListedClients]]
  /\ UNCHANGED <<clientsVars, recordsVars, collectFaults, lostLocks>>

\* What the vendor says of a client; what it really transferred is not in the answer.
Counted(k) == [client |-> k, address |-> lease[k], bytes |-> trafficCounter[k], transferred |-> transferred[k]]

ReadPage(c) ==
  LET r == reading[c]
      portion == Portion(r.page)
      rows == [i \in DOMAIN portion |-> Counted(portion[i].client)]
      got == r.got \o rows
  IN
  /\ r.at = "read"
  /\ IF IsLast(r.page, rows, got)
     THEN /\ reading' = [reading EXCEPT ![c].got = got, ![c].at = "count"]
          /\ UNCHANGED <<routerRow, advisoryLock>>
     ELSE IF CountsPages /\ r.page = MaxPages
     THEN /\ reading' = [reading EXCEPT ![c].at = "degrade"] /\ UNCHANGED <<routerRow, advisoryLock>>
     ELSE /\ reading' = [reading EXCEPT ![c].got = got, ![c].page = @ + 1]
          /\ UNCHANGED <<routerRow, advisoryLock>>
  /\ UNCHANGED <<clientsVars, samples, sampleClock, collectorBounds>>

\* active_users; an empty reading is all there is to do.
UpdateActiveUsers(c) ==
  /\ reading[c].at = "count"
  /\ routerRow' = [routerRow EXCEPT !.active_users = Len(reading[c].got)]
  /\ reading' = [reading EXCEPT ![c].at = IF reading[c].got = << >> THEN "healthy" ELSE "stamp"]
  /\ UNCHANGED <<clientsVars, advisoryLock, samples, sampleClock, collectorBounds>>

\* The open sessions are read, and the time that every sample will bear is taken.
StampSamples(c) ==
  /\ reading[c].at = "stamp"
  /\ sampleClock' = sampleClock + 1
  /\ \E open \in SUBSET SessionRows :
       reading' = [reading EXCEPT ![c].at = "record", ![c].left = reading[c].got, ![c].sessions = open,
                                  ![c].sampledAt = sampleClock + 1]
  /\ UNCHANGED <<clientsVars, advisoryLock, routerRow, samples, collectorBounds>>

\* By MAC, else by address, else by username: of several sessions, the last that was read.
MatchSession(row, open) ==
  LET Opened(with, value) == {s \in open : s[with] = value} IN
  IF Opened("mac", row.client) # {} THEN Opened("mac", row.client)
  ELSE IF Opened("address", row.address) # {} THEN Opened("address", row.address)
  ELSE Opened("username", Username[row.client])

\* One sample of a session and a time: a second one takes the place of the first.
Recorded(table, at, sample) == [t \in DOMAIN table \union {at} |-> IF t = at THEN sample ELSE table[t]]
SampleOf(row) == [client |-> row.client, bytes |-> row.bytes, transferred |-> row.transferred]

NextRow(c) ==
  reading' = [reading EXCEPT ![c].left = Tail(@), ![c].at = IF Len(reading[c].left) = 1 THEN "healthy" ELSE "record"]

RecordSample(c) ==
  LET r == reading[c]  row == Head(r.left) IN
  /\ r.at = "record"
  /\ \E s \in MatchSession(row, r.sessions) :
       samples' = [samples EXCEPT ![s] = Recorded(@, r.sampledAt, SampleOf(row))]
  /\ NextRow(c)
  /\ UNCHANGED <<clientsVars, advisoryLock, routerRow, sampleClock, collectorBounds>>

\* A row that matches no session, or whose counters are no numbers (as the vendor
\* pleases), is passed over.
SkipSample(c) ==
  /\ reading[c].at = "record" /\ NextRow(c)
  /\ UNCHANGED <<clientsVars, advisoryLock, recordsVars, collectorBounds>>

\* The end of the collection gives back the lock, if the connection still has it.
Unlock(c) == advisoryLock' = IF advisoryLock = c THEN Nobody ELSE advisoryLock

MarkHealthy(c) ==
  /\ reading[c].at = "healthy"
  /\ routerRow' = [routerRow EXCEPT !.status = "ONLINE"]
  /\ reading' = [reading EXCEPT ![c] = NotReading] /\ Unlock(c)
  /\ UNCHANGED <<clientsVars, samples, sampleClock, collectorBounds>>

\* A request to the vendor or a statement fails: what is recorded stays.
CollectionFails(c) ==
  /\ reading[c].at \in {"read", "count", "stamp", "record", "healthy"}
  /\ collectFaults < MaxCollectFaults /\ collectFaults' = collectFaults + 1
  /\ reading' = [reading EXCEPT ![c].at = "degrade"]
  /\ UNCHANGED <<clientsVars, advisoryLock, recordsVars, readings, lostLocks>>

\* The row is written through the connection of the lock; without it, the error is lost.
MarkDegraded(c) ==
  /\ reading[c].at = "degrade"
  /\ routerRow' = IF advisoryLock = c THEN [routerRow EXCEPT !.status = "DEGRADED"] ELSE routerRow
  /\ reading' = [reading EXCEPT ![c] = NotReading] /\ Unlock(c)
  /\ UNCHANGED <<clientsVars, samples, sampleClock, collectorBounds>>

\* The process dies, and its connection with it.
CollectorDies(c) ==
  /\ reading[c].at # "idle" /\ collectFaults < MaxCollectFaults /\ collectFaults' = collectFaults + 1
  /\ reading' = [reading EXCEPT ![c] = NotReading] /\ Unlock(c)
  /\ UNCHANGED <<clientsVars, recordsVars, readings, lostLocks>>

\* The server drops the connection, and the process does not hear of it.
LockIsLost(c) ==
  /\ advisoryLock = c /\ collectFaults < MaxCollectFaults /\ collectFaults' = collectFaults + 1
  /\ advisoryLock' = Nobody /\ lostLocks' = lostLocks + 1
  /\ UNCHANGED <<clientsVars, reading, recordsVars, readings>>

TelemetryNext ==
  \/ \E k \in Clients : Come(k, TRUE) \/ Come(k, FALSE) \/ Leaves(k) \/ Transfer(k)
  \/ \E i \in DOMAIN listed : Roams(i)
  \/ \E c \in Collectors :
       \/ CollectAll(c) \/ ReadPage(c) \/ UpdateActiveUsers(c) \/ StampSamples(c) \/ RecordSample(c) \/ SkipSample(c)
       \/ MarkHealthy(c) \/ CollectionFails(c) \/ MarkDegraded(c) \/ CollectorDies(c) \/ LockIsLost(c)

TelemetrySpec == TelemetryInit /\ [][TelemetryNext]_telemetryVars

------------------------
(* Properties. *)

\* The router's row, the lock and the steps of a collection keep their types.
TelemetryTypeOK ==
  /\ routerRow \in [status : {"ONLINE", "DEGRADED"}, active_users : Nat]
  /\ advisoryLock \in Collectors \union {Nobody}
  /\ \A c \in Collectors :
       reading[c].at \in {"idle", "read", "count", "stamp", "record", "healthy", "degrade"}

ReadToEnd(c) == reading[c].at \in {"count", "stamp", "record", "healthy"}

\* A reading that ends well is whole: of the clients that stayed in the list while it was
\* read, it misses no more than left or roamed meanwhile.  An adapter that gives up at its
\* last page says so.
MissesOnlyByDepartures ==
  \A c \in Collectors : ReadToEnd(c) => Cardinality(reading[c].stayed \ ReadClients(c)) <= reading[c].departures

\* It counts a client twice only when one came or roamed meanwhile.
CountsTwiceOnlyByArrivals ==
  \A c \in Collectors : ReadToEnd(c) => Len(reading[c].got) - Cardinality(ReadClients(c)) <= reading[c].arrivals

\* Two collections do not overlap, unless the server dropped a connection unheard.
OneCollectorAtATime ==
  lostLocks = 0 => Cardinality({c \in Collectors : reading[c].at # "idle"}) <= 1

Growth(before, after) == IF after.bytes > before.bytes THEN after.bytes - before.bytes ELSE 0

Follows(s, a, b) == a < b /\ \A t \in DOMAIN samples[s] : t <= a \/ b <= t

\* The throughput of a session between two samples that follow one another is never more
\* than its client transferred between them, though counters start again, pages are read at
\* different times, and clients are matched now to one session and now to another; unless
\* the two are of different clients (the address was leased again, or they share a username:
\* the code does not tell them apart), or two collections overlapped.
ThroughputIsReal ==
  lostLocks = 0 => \A s \in SessionRows : \A a, b \in DOMAIN samples[s] :
    Follows(s, a, b) /\ samples[s][a].client = samples[s][b].client
      => Growth(samples[s][a], samples[s][b]) <= samples[s][b].transferred - samples[s][a].transferred

TelemetryHolds ==
  /\ TelemetryTypeOK /\ MissesOnlyByDepartures /\ CountsTwiceOnlyByArrivals
  /\ OneCollectorAtATime /\ ThroughputIsReal
====
