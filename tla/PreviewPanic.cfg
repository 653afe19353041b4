SPECIFICATION FairSpec
CONSTANTS
  photo = photo
  text = text
  redaction = redaction
  edit = edit
  split = split
  h1 = h1
  h2 = h2
  Text = {split}
  Attached = {}
  Redactions = {}
  Target <- MCNoTarget
  Splits = {split}
  Txns <- MCSplitTxns
  Handlers = {h1}
  Degrade = FALSE
  Edits = {}
  MaxEdits = 0
  MaxSends = 1
  None = None
CHECK_DEADLOCK FALSE
PROPERTY TextIsDealtWith
