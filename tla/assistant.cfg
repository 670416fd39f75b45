SPECIFICATION Spec
CONSTANTS
  t1 = t1
  t2 = t2
  u1 = u1
  u2 = u2
  m1 = m1
  m2 = m2
  None = None
  Threads = {t1, t2}
  Turns = {u1, u2}
  ThreadOf <- MCThreadOf
  Messages = {m1, m2}
  TurnOf <- MCTurnOf
  BufferLimit = 1
  MaxPieces = 2
  MaxLag = 2
  MaxRequests = 1
  MaxMishaps = 1
  MaxFaults = 1
CHECK_DEADLOCK FALSE
INVARIANTS TextInOrder EndedTurnShown CompletedOnce
