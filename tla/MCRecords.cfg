SPECIFICATION Spec
CONSTANTS
  People = {ana, ben}
  Operators = {ana}
  Founder = ana
  Posts = {m1, m2, m3}
  MsgKeys = {k1}
  Calls = {c1, c2}
  PinLimit = 2
  MaxBodies = 3
  NoPost = NoPost
  NoKey = NoKey
  Readers = {r1}
  Screens = {s1, s2}
  NumMessages = 2
  MaxReadFaults = 1
  Orders = {o1}
  Lines = {l1, l2}
  Items = {i1}
  StockKeys = {k1, k2, k3}
  Bills = {b1, b2}
  BillKeys = {x1, x2, x3}
  Notes = {n1, n2}
  CreditKeys = {c1}
  NoOrder = NoOrder
  Quantities = {1, 2}
  Costs = {0, 5}
  Amounts = {1, 2}
  InvoiceTotal = 3
  Resellers = {a1}
  Sales = {v1, v2}
  Accruals = {t1, t2}
  WfRuns = {r1, r2}
  WfWorkers = {p1, p2}
  Programs <- ThePrograms
  ClaimLimit = 2
  MaxAttempts = 2
  MaxSteps = 4
  MaxVersions = 2
  MaxWfFaults = 2
  MaxSlow = 1
  NoRun = NoRun
  Awake = {p1}
  MaxStarted = 1
  MaxTexts = 2
  MaxEdited = 1
INVARIANTS ConversationIsWhole RunsItsVersion
PROPERTIES ReceiptsAgree BooksAgree RunsAreSafe
CHECK_DEADLOCK FALSE
