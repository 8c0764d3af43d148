SPECIFICATION LivenessSpec
CONSTANTS
  v1 = v1 p1 = p1 c1 = c1 c2 = c2
  Messages = {m1}
  Letters = {l1, l2}
  Workers = {w1, w2}
  MaxRetries = 2
  MaxCopies = 2
  Failures = {"worker_lost"}
  NoMessage = NoMessage
  NoLetter = NoLetter
  Invoices = {v1}
  Adjustments = {}
  Amount <- Amounts
  RetryTasks = {t1}
  MaxFaults = 1
  Sessions = {s1, s2}
  Matching = {}
  Referenced = {v1}
  ByHand = {"paid"}
  NoInvoice = NoInvoice
  Parcels = {p1}
  Reverses = {}
  OriginalOf <- NoReverse
  Carriers = {c1, c2}
  Rankings <- Ranks
  Trackers = {k1, k2}
  Coarse = {}
  MaxScans <- Scans
  Subs = {b1}
  Sweeps = {h1}
  Requests = {q1}
  Period = 2
  Notice = 1
  MaxAttempts = 2
  LastTime = 4
CHECK_DEADLOCK FALSE
PROPERTIES KeptUnlessAsked FairMessageSettles  FairInvoiceIsMatched FairDeliveredIsSeen FairDueIsSettled
