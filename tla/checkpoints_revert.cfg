SPECIFICATION Spec
CONSTANTS
  NoTurn = NoTurn
  t1 = t1
  t2 = t2
  Turns = {t1, t2}
  MaxReverts = 1
  MaxFaults = 1
  MaxBehind = 2
  MaxWaiting = 1
SYMMETRY TurnSymmetry
CHECK_DEADLOCK FALSE
INVARIANTS MessagesAgree ConversationKept TreeKept Restorable
PROPERTIES CaptureStays
