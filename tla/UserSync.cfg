SPECIFICATION Spec
CONSTANTS
  ann = ann
  bob = bob
  open_ann = open_ann
  n1 = n1
  n2 = n2
  w1 = w1
  w2 = w2
  Users = {ann, bob}
  Ids = {open_ann, bob}
  UserOf <- MCUserOf
  Names = {n1, n2}
  Workers = {w1, w2}
  MaxFaults = 1
  None = None
SYMMETRY MCSymmetry
CHECK_DEADLOCK FALSE
INVARIANTS TypeOK SentAsSender BotOnlyWhenHurt
PROPERTIES DirectorySpec
