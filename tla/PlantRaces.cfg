SPECIFICATION MCSpec
CONSTANTS
  x = x
  y = y
  b1 = b1
  b2 = b2
  Rows = {x, y}
  ApiSessions = {a1, a2}
  WorkerSessions = {}
  Reservations = {r1}
  Batches = {b1, b2}
  NoRow = NoRow
  NoBatch = NoBatch
  MaxQuantity = 1
  MaxDelta = 1
  MaxTotal = 2
  MaxYield = 1
  MaxStock = 2
  Item <- TwoItems
  InitOnHand <- OnHand
  Bom <- Bills
  Product <- Bars
SYMMETRY Symmetries
INVARIANTS RowsConsistent ConsumesOnce UncontestedBacked OversoldOnlyByRaces
PROPERTY UncontestedIsFinal
