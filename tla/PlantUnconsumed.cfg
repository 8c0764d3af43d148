SPECIFICATION PlantSpec
CONSTANTS
  x = x
  y = y
  b1 = b1
  b2 = b2
  Rows = {x, y}
  ApiSessions = {a1}
  WorkerSessions = {}
  Reservations = {r1}
  Batches = {b2}
  NoRow = NoRow
  NoBatch = NoBatch
  MaxQuantity = 1
  MaxDelta = 1
  MaxTotal = 3
  MaxYield = 1
  MaxStock = 3
  Item <- TwoItems
  InitOnHand <- OnHand
  Bom <- Bills
  Product <- Bars
INVARIANTS ProductionConsumes
