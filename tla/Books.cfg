SPECIFICATION MCSpec
CONSTANTS
  p1 = p1 i1 = i1 i2 = i2 u1 = u1 u2 = u2 v1 = v1 v2 = v2 a1 = a1 a2 = a2 e1 = e1
  Orders = {p1}
  Items = {i1, i2}
  Users = {u1, u2}
  Ordered <- Lines
  MaxNoted = 3
  NoOrder = NoOrder
  Invoices = {v1}
  Adjustments = {a1, a2}
  Amount <- Amounts
  RetryTasks = {t1}
  MaxFaults = 1
  Sessions = {}
  Matching = {v1}
  Referenced = {v1}
  ByHand = {}
  NoInvoice = NoInvoice
  Postings <- Calls
  Drafts = {e1}
  Reversers = {r1, r2}
  Posters = {q1}
  NoRow = NoRow
  Passes = {k1, k2}
  Settlements = {s1, s2, s3, s4}
  Fits = {s1, s2, s4}
  Differs = {s3}
  Unpostable = {s2}
CHECK_DEADLOCK FALSE
INVARIANTS CountersCovered ReceivedIsComplete SyncedIsPosted DuplicatesBounded RunningBalance UnbookedExplained NumbersDense ReversedOnce SettledOnce
PROPERTIES ClosedForGood
