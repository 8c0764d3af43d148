SPECIFICATION SpecOneSettler
CONSTANTS
  x = x
  y = y
  Rows = {x}
  ApiSessions = {a1, a2}
  WorkerSessions = {w}
  Reservations = {r1, r2}
  NoRow = NoRow
  MaxQuantity = 2
  MaxDelta = 1
  MaxTotal = 3
  Item <- SameItem
  InitOnHand <- OneRow
PROPERTY KeepsLedger
