SPECIFICATION Spec
CONSTANTS
  a = a
  b = b
  ca = ca
  cb = cb
  ta = ta
  tb = tb
  tb2 = tb2
  None = None
  Device = {a, b}
  Msg = {cb, tb, tb2}
  From <- MCFrom
  To <- MCTo
  Contact = {cb}
  FetchLimit = 2
  MaxUpset = 1
CHECK_DEADLOCK FALSE
SYMMETRY MCTextSymmetry
INVARIANTS
  TypeOK
  NoDuplicates
  AckedWasShown
  ReceiveBehindSent
