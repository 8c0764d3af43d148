SPECIFICATION FairSpec
CONSTANTS
  x = x
  y = y
  Rows = {x, y}
  ApiSessions = {a1, a2}
  WorkerSessions = {w}
  Reservations = {r1}
  NoRow = NoRow
  MaxQuantity = 1
  MaxDelta = 1
  MaxTotal = 3
  Item <- SameItem
  InitOnHand <- TwoRows
PROPERTIES TransferEnds ExpiredIsSettled
