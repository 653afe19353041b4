SPECIFICATION Spec
CONSTANTS
  r1 = r1
  r2 = r2
  c1 = c1
  t1 = t1
  t2 = t2
  Rooms = {r1}
  Chats = {c1}
  Names = {"Bridged Room"}
  Modes = {"group", "thread"}
  Updates <- MCOneUpdate
  BridgedRoom = "Bridged Room"
  Group = "group"
  Tasks = {t1}
  MaxId = 2
  None = None
CHECK_DEADLOCK FALSE
INVARIANT RemovedIsGone
