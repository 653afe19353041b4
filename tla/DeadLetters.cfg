SPECIFICATION FairSpec
CONSTANTS
  receive = receive
  recall = recall
  legacy = legacy
  left0 = left0
  left1 = left1
  left2 = left2
  m1 = m1
  m2 = m2
  c1 = c1
  s1 = s1
  s2 = s2
  r1 = r1
  Events <- MCChatEvents
  Recalls = {}
  Legacy = {legacy}
  Notices = {left0, left1, left2}
  SubjectOf <- MCChatSubjectOf
  Identified = {left0}
  Messages = {m2}
  Text = {}
  Chats = {c1}
  MessageOf <- MCChatMessageOf
  ChatOf <- MCChatChatOf
  Slots = {s1, s2}
  Replayers = {r1}
  MaxDeliveries = 1
  MaxPosts = 0
  None = None
CHECK_DEADLOCK FALSE
INVARIANT StillReplayable
PROPERTY QueuedIsRun
