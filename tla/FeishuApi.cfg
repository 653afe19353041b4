SPECIFICATION FairSpec
CONSTANTS
  t1 = t1
  t2 = t2
  ann = ann
  bob = bob
  Tasks = {t1, t2}
  Users = {ann, bob}
  Capacity = 1
  Ttl = 1
  MaxRetries = 1
  Margin = 3
  Floor = 1
  Lifetimes = {3, 5}
  MaxHold = 1
  MaxVersion <- MCVersions
  None = None
CHECK_DEADLOCK FALSE
INVARIANTS TypeOK AnswersForward DropsOutdated TokenIsValid
PROPERTY CallsReturn
