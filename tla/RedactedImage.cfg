SPECIFICATION Spec
CONSTANTS
  photo = photo
  text = text
  redaction = redaction
  edit = edit
  split = split
  h1 = h1
  h2 = h2
  Text = {photo}
  Attached = {photo}
  Redactions = {redaction}
  Target <- MCPhotoTarget
  Splits = {}
  Txns <- MCPhotoTxns
  Handlers = {h1}
  Degrade = FALSE
  Edits = {}
  MaxEdits = 0
  MaxSends = 2
  None = None
CHECK_DEADLOCK FALSE
INVARIANT RedactedIsGone
