SPECIFICATION Spec
CONSTANTS
  m1 = m1 m2 = m2 w1 = w1 w2 = w2 l1 = l1 l2 = l2
  Messages = {m1}
  Letters = {l1, l2}
  Workers = {w1, w2}
  MaxRetries = 2
  MaxCopies = 2
  Failures = {"worker_lost", "exception"}
  NoMessage = NoMessage
  NoLetter = NoLetter
SYMMETRY Interchangeable
CHECK_DEADLOCK FALSE
INVARIANTS OutboxLosesNothing DeadHasLetter
