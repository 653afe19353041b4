SPECIFICATION FairSpec
CONSTANTS
  event = event
  untyped = untyped
  card = card
  Messages = {event, untyped, card}
  Events = {event, untyped}
  Untyped = {untyped}
  CutsOf <- MCCutsOf
  MaxWire = 1
  MaxFaults = 2
  None = None
CHECK_DEADLOCK FALSE
INVARIANTS TypeOK HandsOnWhole
PROPERTIES MailboxSpec AssembledInTime EveryEventTaken
