SPECIFICATION Spec
CONSTANTS
  Direct = {k1}
  Campaigns = {c1}
  Phones = {p1}
  Senders = {w1, w2}
  SmsBatch = 2
  MaxAttempts = 2
  MaxSmsFaults = 1
  MaxSettings = 1
  SmsEnv = {"recover", "crash", "error"}
  NoRow = NoRow
  Endpoints = {e1, e2}
  Events = {v1}
  Couriers = {q1, q2}
  HookBatch = 1
  HookAttempts = 2
  MaxHookFaults = 1
  MaxHookChanges = 1
  NoHook = NoHook
  EventKeys = {n1, n2}
  Users = {"olga", "neema", "asha"}
  RoleOf <- Roles
  TargetRoles = {"OWNER", "ADMIN", "AGENT"}
  Processes = {d1, d2}
  EventBatch = 2
  EventAttempts = 2
  MaxEventFaults = 2
  NoEvent = NoEvent
  ProviderEvents = {n1}
  HookCalls = {g1, g2}
  PaymentTypes = {"payment.completed", "payment.failed"}
  NoCall = NoCall
  Scheduled = {i1, i2}
  Happenings = {h1}
  HasEnd = {}
  Runners = {u1, u2}
  DueBatch = 1
  MaxRunFaults = 1
  MaxMoves = 1
  NoRunner = NoRunner
  NoSched = NoSched
INVARIANTS OnlyAFaultStrands AttemptsAreCounted
PROPERTIES OutboxesDeliver OutboxesSettle OutcomesAreFinal
CHECK_DEADLOCK FALSE
