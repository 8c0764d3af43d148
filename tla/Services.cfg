SPECIFICATION MCSpec
CONSTANTS
  f1 = f1 p1 = p1 r1 = r1 c1 = c1 c2 = c2 k1 = k1 k2 = k2 b1 = b1 b2 = b2 m1 = m1 v1 = v1 v2 = v2 w2 = w2 w3 = w3
  Orders = {o1}
  Refunds = {f1, f2, f3}
  Price <- Prices
  Share <- Shares
  Checkouts = {k1, k2}
  Deliveries = {d1}
  NoOrder = NoOrder
  MaxSessions = 2
  Parcels = {p1, r1}
  Reverses = {r1}
  OriginalOf <- Original
  Carriers = {c1, c2}
  Rankings <- Ranks
  Trackers = {k1, k2}
  Coarse = {}
  MaxScans <- Scans
  Subs = {s1}
  Sweeps = {w1}
  Requests = {q1}
  Period = 2
  Notice = 1
  MaxAttempts = 2
  LastTime = 6
  Calls = {k1, k2, k3}
  Limit = 2
  Window = 2
  RandomTails = {1, 2}
  PingRetries = 3
  LastTick = 4
  Materials = {m1}
  Batches = {b1, b2}
  Bill <- Bills
  Clerks = {k1, k2}
  Increments = {1}
  MaxStock = 3
  ReturnRequests = {n1}
  Callers = {k1, k2}
  Visits = {k1, k2}
  MaxAddresses = 3
  ReviewIds = {v1, v2}
  Rating <- Stars
  Moderators = {k1, k2}
  RatingWorkers = {w2, w3}
  MaxRecomputeRetries = 1
  MaxRecomputes = 2
  Unrated = Unrated
  CustomerInvoices = {i1}
  PdfWorkers = {k1, k2}
  MaxPdfRetries = 3
  MaxPdfCopies = 2
SYMMETRY Symmetries
CHECK_DEADLOCK FALSE
INVARIANTS ServicesTypeOK PaidIsCharged  BookingsAccounted  PastDueEarned SlidingWindow MaterialsAccounted ReturnIsTold OneDefault RatingRepaired PdfAccounted
PROPERTIES BilledOncePerPeriod
