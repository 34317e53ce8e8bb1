SPECIFICATION Spec
CONSTANTS
  Routers = {r1}
  Monitors = {m1}
  IncidentIds = {i1}
  MaxLevel = 1
  MaxIncidentFaults = 1
  MaxUpsets = 1
  NoIncident = NoIncident
  PageTenants = {"t1", "t2"}
  Slugs = {"g1", "g2"}
  MaxStatusEdits = 3
  Devices = {d1}
  Jobs = {j1}
  JobTargets = {"IN_PROGRESS", "COMPLETED"}
  NoteKinds = {"NOTE_ADDED"}
  SyncBatch = 2
  MaxOps = 3
  MaxOffice = 1
  MaxFieldFaults = 1
  Customers = {c1}
  Bindings = {b1, b2}
  CustomerOf <- OneCustomer
  MaxTime = 2
  MaxServiceChanges = 2
  MaxServiceFaults = 1
  Never = Never
  NoService = NoService
  WfRuns = {x1}
  WfWorkers = {p1, p2}
  Programs <- ThePrograms
  ClaimLimit = 2
  MaxAttempts = 2
  MaxSteps = 4
  MaxVersions = 1
  MaxWfFaults = 1
  MaxSlow = 1
  NoRun = NoRun
INVARIANTS IncidentsAreKnown SyncIsExact
PROPERTIES ExpiryIsRecorded OperationsSettle
CHECK_DEADLOCK FALSE
