SPECIFICATION Spec
CONSTANTS
  photo = photo
  text = text
  redaction = redaction
  edit = edit
  split = split
  h1 = h1
  h2 = h2
  Text = {photo, text}
  Attached = {photo}
  Redactions = {redaction}
  Target <- MCTarget
  Splits = {}
  Txns <- MCTxns
  Handlers = {h1, h2}
  Degrade = FALSE
  Edits = {edit}
  MaxEdits = 2
  MaxSends = 3
  None = None
SYMMETRY MCSymmetry
CHECK_DEADLOCK FALSE
INVARIANTS TypeOK TextOnce TextIsRecalled LossIsFailure
PROPERTIES FeedSpec
