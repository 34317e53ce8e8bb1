\* The confirmation fails, then the cancellation fails and its error is swallowed.
SPECIFICATION Spec
CONSTANTS
  Schedules = {s1}
  Workers = {w1, w2}
  Reconcilers = {r1}
  Executions = {e1, e2}
  Purchases = {p1, p2}
  Prices = {1}
  InitialPrice = 1
  InitialBalance = 2
  FailureLimit = 5
  CompensationLimit = 2
  Env = {}
  FailingSteps = {"confirm", "cancel"}
  LostAcks = {}
  MaxDisturbances = 3
  None = None
SYMMETRY RenewalSymmetry
INVARIANTS NeverPaidAndRefunded
CHECK_DEADLOCK FALSE
