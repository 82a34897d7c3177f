SPECIFICATION Spec
CONSTANTS
  None = None
  Msg = {m1}
  Incoming = {t1}
  MaxUpset = 1
PROPERTY
  HistoryKept
