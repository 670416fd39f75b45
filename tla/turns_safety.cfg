SPECIFICATION Spec
CONSTANTS
  m1 = m1
  m2 = m2
  m3 = m3
  NoMessage = NoMessage
  Messages = {m1, m2, m3}
  Steered = {m3}
  MaxStops = 3
  MaxSendFaults = 1
  MaxDispatchFaults = 1
  Redelivered = {}
  MaxRedeliveries = 0
CHECK_DEADLOCK FALSE
SYMMETRY MessageSymmetry
INVARIANTS TypeOK InOnePlace SettlesWithProvider PromotedInOrder
