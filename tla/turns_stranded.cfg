SPECIFICATION FairSpec
CONSTANTS
  m1 = m1
  m2 = m2
  m3 = m3
  NoMessage = NoMessage
  Messages = {m1, m2}
  Steered = {}
  MaxStops = 0
  MaxSendFaults = 0
  MaxDispatchFaults = 0
  Redelivered = {}
  MaxRedeliveries = 0
CHECK_DEADLOCK FALSE
PROPERTIES QueuedMessageLeaves
