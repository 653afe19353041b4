SPECIFICATION Spec
CONSTANTS
  r1 = r1
  r2 = r2
  r3 = r3
  c1 = c1
  Callers = {r1, r2, r3}
  Chats = {c1}
  None = None
CHECK_DEADLOCK FALSE
INVARIANT FreedUnlessTimedOut
PROPERTIES DeskSpec DecisionStays
