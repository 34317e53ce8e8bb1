SPECIFICATION PlantSpec
CONSTANTS
  w1 = w1
  w2 = w2
  MaxCommands = 2
  Sessions = {s1, s2}
  Workers = {w1, w2}
  Enforcers = {e1}
  BatchSize = 2
  Env = {"router", "timeout", "error", "crash", "roam"}
  CrashAt = {"load", "apply", "executed", "verify", "mark", "unverify", "failed", "caught", "prune"}
  FailAt = {"load", "apply", "executed", "verify", "mark", "unverify", "failed", "caught", "prune"}
  MaxDisturbances = 3
  None = None
  NumWans = 2
  Rebalancers = {r1, r2}
  Gateways = {g1, g2}
  RecoveryThreshold = 2
  MaxWanChanges = 1
  MaxProbes = 4
  MaxRebalances = 3
  MaxWanFaults = 1
  NumPolicies = 2
  MaxFlows = 4
  MaxPicks = 2
  Processes = {p1, p2}
  Admins = {a1, a2}
  HandEnforcers = {h1, h2}
  Plans = {n1, n2}
  MaxSecrets = 2
  MaxUpdates = 2
  MaxEnforcements = 3
  MaxSpeedChanges = 1
  MaxFleetFaults = 1
  Collectors = {c1, c2}
  k1 = k1
  k2 = k2
  ip1 = ip1
  ip2 = ip2
  Clients = {k1, k2}
  Addresses = {ip1, ip2}
  Username <- OneUsername
  SessionRows <- TwoSessions
  Listings = {"offset and total", "page of pages", "until a short page", "site by site", "whole"}
  PageSize = 1
  MaxPages = 2
  NumSites = 2
  MaxChurn = 1
  MaxReadings = 2
  MaxTraffic = 1
  MaxCollectFaults = 1
INVARIANTS VerifiedWasCarriedOut FleetHolds TelemetryHolds
PROPERTY WanRoutesHold
SYMMETRY Symmetry
CHECK_DEADLOCK FALSE
