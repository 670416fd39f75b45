SPECIFICATION FairSpec
CONSTANTS
  create = create
  create2 = create2
  turn = turn
  turn2 = turn2
  empty = empty
  d1 = d1
  d2 = d2
  d3 = d3
  d4 = d4
  NoDispatch = NoDispatch
  Commands = {create, create2, turn, turn2, empty}
  Dispatches = {d1, d2, d3}
  CommandOf <- Empties
  EventsOf <- MCEventsOf
  Requires <- MCRequires
  Excludes <- MCExcludes
  Faults = {"receiptRead", "defect", "transaction", "deferred", "reconcileRead", "outcomeRead"}
  InterruptAt = {"receipt", "decide", "install", "deferred", "publish"}
  MaxFaults = 1
  MaxCrashes = 0
  MaxRepairs = 1
  ReadLimit = 10
CHECK_DEADLOCK FALSE
PROPERTIES Answered Recovers
