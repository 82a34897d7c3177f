SPECIFICATION CalmSpec
CONSTANTS
  a = a
  b = b
  ca = ca
  cb = cb
  ta = ta
  tb = tb
  tb2 = tb2
  None = None
  Device = {a, b}
  Msg = {ca, cb, tb}
  From <- MCFrom
  To <- MCTo
  Contact = {ca, cb}
  FetchLimit = 2
  MaxUpset = 0
CHECK_DEADLOCK FALSE
PROPERTY
  EveryTextShown
