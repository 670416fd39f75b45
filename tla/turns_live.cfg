SPECIFICATION FairSpec
CONSTANTS
  m1 = m1
  m2 = m2
  m3 = m3
  NoMessage = NoMessage
  Messages = {m1, m2, m3}
  Steered = {m3}
  MaxStops = 0
  MaxSendFaults = 1
  MaxDispatchFaults = 0
  Redelivered = {"start"}
  MaxRedeliveries = 1
CHECK_DEADLOCK FALSE
INVARIANTS StartedOnce
PROPERTIES QueuedBehindTurnLeaves
