\* One schedule, two concurrent runs: crashes, database errors at every statement but
\* the cancellation, lost acknowledgements, a frozen wallet, a withdrawn package.
SPECIFICATION PeopleSpec
CONSTANTS
  Schedules = {s1}
  Workers = {w1, w2}
  Reconcilers = {r1}
  Executions = {e1, e2}
  Purchases = {p1, p2, p3}
  Prices = {1}
  InitialPrice = 1
  InitialBalance = 2
  FailureLimit = 5
  CompensationLimit = 2
  Env = {"crash", "freeze", "deactivate"}
  FailingSteps = {"plan", "purchase", "link", "lookup", "check", "debit", "confirm", "advance", "inspect", "refund", "enqueue", "retire", "resolve"}
  LostAcks = {"purchase", "link", "debit", "confirm", "advance", "refund", "enqueue", "retire"}
  MaxDisturbances = 3
  None = None
  Folk = {ana, ben}
  Administrator = ana
  Slugs = {x}
  PollOptions = {c1, c2}
  Permissions = {q1}
  MaxFolkFaults = 1
  AiRuns = {a1, a2}
  Confirmers = {f1, f2}
  MaxQueued = 3
  MaxAiFaults = 1
  DemoCodes = {"JAS-1149", "JAS-1000"}
  MaxDemoTime = 1
  MaxDemoRows = 2
  Buyers = {k1, k2}
  Linked = {k1, k2}
  Absent = Absent
  MaxDeskOps = 2
  MaxSelections = 1
  MaxDeskFaults = 1
  Cameras = {"front", "back"}
  Assets = {1, 2}
  Mentions <- TheMentions
  Forms = {"tag", "word", "bare"}
  Items = {"i1", "i2"}
  MaxScans = 2
  MaxLookups = 2
  MaxTicks = 4
INVARIANTS NeverPaidAndRefunded DemoHolds CommunityHolds
PROPERTIES ClaimsHold AssistantHolds DeskHolds
CHECK_DEADLOCK FALSE
