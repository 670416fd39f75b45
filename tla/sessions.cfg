SPECIFICATION Spec
CONSTANTS
  Absent = Absent
  MaxCalls = 3
  MaxOthers = 1
  MaxStarts = 3
  MaxConversations = 2
  MaxLag = 1
  MaxFaults = 1
CHECK_DEADLOCK FALSE
INVARIANTS NoStrayProcess AtRestStoppable
PROPERTIES ConversationKept
