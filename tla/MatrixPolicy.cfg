SPECIFICATION PolicyFairSpec
CONSTANTS
  text = text
  edit1 = edit1
  edit2 = edit2
  h1 = h1
  h2 = h2
  Text = {text}
  Attached = {}
  Redactions = {}
  Edits = {edit1, edit2}
  Target <- MCTarget
  Splits = {}
  Txns <- MCTxns
  Handlers = {h1, h2}
  Degrade = FALSE
  MaxSends = 1
  MaxEdits = 3
  Limit = 2
  Window = 1
  MaxTime = 2
  None = None
CHECK_DEADLOCK FALSE
INVARIANTS  EditIsShown LastEditStays
PROPERTIES EveryTxnAnswered 
