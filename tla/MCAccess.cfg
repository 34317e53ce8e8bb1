SPECIFICATION AccessSpec
CONSTANTS
  Sessions = {s1}
  Reconcilers = {r1, r2}
  Workers = {w1}
  MaxCommands = 1
  BatchSize = 1
  CrashAt = {"load", "apply", "executed", "mark"}
  FailAt = {"apply", "executed", "mark"}
  Env = {"renew", "outage", "abort", "reprovision", "retry", "router", "timeout", "error", "crash", "slow", "roam"}
  MaxDisturbances = 2
  None = None
  Users = {1, 2}
  Offered = {12, 36}
  Capacity = 36
  ServiceMax = 30
  MaxEvals = 2
  MaxShifts = 1
  Isps = {"t1", "t2"}
  Packets = {"x1", "x2"}
  Handlers = {h1, h2}
  Duration = 2
  LastHour = 4
  MaxHandled = 4
  Visitors = {v1, v2}
  Window = 2
  AttemptLimit = 3
  Profiles = {"c1", "c2"}
  MaxVisits = 5
  Members = {"m1", "m2"}
  Logins = {l1, l2}
  TokenLife = 1
  MaxTime = 2
  MaxRequests = 2
  Applicants = {o1, o2}
  Slugs = {"g1", "g2"}
  Emails = {"e1", "e2"}
  MaxSignUps = 3
  Secrets = {n1, n2}
  KeyIds = {"k1", "k2"}
  Processes = {"p1", "p2"}
  MaxDeploys = 2
  MaxChanges = 3
  FirstKey = "k1"
  Pools = {"p1", "p2"}
  Networks <- TheNetworks
  Inventory = {"a1", "a2", "a3"}
  Holders = {"h1", "h2"}
  Operators = {"o1", "o2"}
  MaxAsked = 8
INVARIANTS DisconnectAlwaysRefused PolicyHolds
PROPERTIES EndedIsFinal SessionsSettle HotspotHolds WorkspaceHolds
CHECK_DEADLOCK FALSE
