\* Refinement and liveness of the renewal saga (failures after the debit: settlement and
\* refund errors, crashes, lost acknowledgements) and of the command fabric.
SPECIFICATION LiveSpec
CONSTANTS
  None = None
  Workers = {w1, w2}
  MaxCommands = 2
  Sessions = {s1}
  Enforcers = {f1}
  BatchSize = 2
  Env = {"retry", "router", "timeout", "error", "crash", "slow"}
  CrashAt = {"load", "apply", "executed", "failed", "caught", "prune"}
  FailAt = {"apply", "executed", "failed", "caught", "prune"}
  MaxDisturbances = 2
  Schedules = {s1}
  Reconcilers = {r1}
  Executions = {e1, e2}
  Purchases = {p1, p2}
  Prices = {1}
  InitialPrice = 1
  InitialBalance = 2
  FailureLimit = 2
  CompensationLimit = 5
  RenewalEnv = {"crash"}
  FailingSteps = {"check", "debit", "confirm", "advance", "refund", "resolve"}
  LostAcks = {"confirm", "advance", "refund", "enqueue"}
  MaxRenewalDisturbances = 4
PROPERTIES OutcomeIsFinal LifecycleSpec WalletChargeSpec
CHECK_DEADLOCK FALSE
