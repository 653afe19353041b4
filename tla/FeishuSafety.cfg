SPECIFICATION Spec
CONSTANTS
  receive = receive
  recall = recall
  legacy = legacy
  left0 = left0
  left1 = left1
  left2 = left2
  m1 = m1
  m2 = m2
  c1 = c1
  s1 = s1
  s2 = s2
  r1 = r1
  Events = {receive, recall}
  Recalls = {recall}
  Legacy = {}
  Notices = {}
  SubjectOf <- MCTextSubjectOf
  Identified = {receive, recall}
  Messages = {m1}
  Text = {m1}
  Chats = {c1}
  MessageOf <- MCTextMessageOf
  ChatOf <- MCTextChatOf
  Slots = {s1, s2}
  Replayers = {r1}
  MaxDeliveries = 2
  MaxPosts = 2
  None = None
SYMMETRY MCSymmetry
CHECK_DEADLOCK FALSE
INVARIANTS TypeOK StillReplayable SettledWasPosted
PROPERTIES OfficeSpec QueueSpec
