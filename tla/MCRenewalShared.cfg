\* Two schedules share one wallet: top-ups, price changes, a wallet frozen and thawed, a
\* package withdrawn, runs that die, and a customer who pauses and resumes the schedules
\* that no run holds.
SPECIFICATION Spec
CONSTANTS
  Schedules = {s1, s2}
  Workers = {w1, w2}
  Reconcilers = {r1}
  Executions = {e1, e2, e3}
  Purchases = {p1, p2}
  Prices = {1, 2}
  InitialPrice = 1
  InitialBalance = 2
  FailureLimit = 2
  CompensationLimit = 2
  Env = {"topUp", "reprice", "resume", "freeze", "deactivate", "crash"}
  FailingSteps = {"debit", "confirm", "refund"}
  LostAcks = {"debit"}
  MaxDisturbances = 3
  None = None
SYMMETRY RenewalSymmetry
INVARIANTS LedgerIsExact SettledImpliesDebited RefundImpliesDebited
CHECK_DEADLOCK FALSE
