\* Two requests in flight over two purchases; u1 and u2 share a telephone, u3 has none.
SPECIFICATION Spec
CONSTANTS
  Clerks = {c1, c2}
  Customers = {u1, u2, u3}
  SamePhone = {u1, u2}
  Purchases = {p1, p2}
  Payments = {y1, y2}
  Vouchers = {v1, v2}
  Keys = {k1, k2}
  Refunds = {r1, r2}
  Price = 2
  Discount = 1
  PromoLimit = 1
  CustomerPromoLimit = 1
  Frequency = "ONCE_PER_PHONE"
  Totals = {1, 2}
  MaxRequests = 7
  None = None
SYMMETRY ShopSymmetry
INVARIANTS SettlementIsWhole InvoiceIsCollected LimitsAreKept
PROPERTIES LifecycleSpec
CHECK_DEADLOCK FALSE
