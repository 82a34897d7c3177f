SPECIFICATION Spec
CONSTANTS
  a = a
  b = b
  c1 = c1
  c2 = c2
  None = None
  AnyCall = AnyCall
  Device = {a, b}
  Call = {c1}
  From <- OneFrom
  To <- OneTo
  Limit = 2
  MaxQueue = 3
  MaxClicks = 1
  MaxLost = 0
PROPERTIES
  BusyInAnother
