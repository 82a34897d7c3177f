SPECIFICATION Spec
CONSTANTS
  a = a
  b = b
  c1 = c1
  c2 = c2
  None = None
  AnyCall = AnyCall
  Device = {a, b}
  Call = {c1, c2}
  From <- BothFrom
  To <- BothTo
  Limit = 2
  MaxQueue = 3
  MaxClicks = 0
  MaxLost = 0
INVARIANTS
  MediaAfterAccept
