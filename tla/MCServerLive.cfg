SPECIFICATION ServerLiveSpec
CONSTANTS
  alice = alice
  bob = bob
  a = a
  b = b
  m1 = m1
  m2 = m2
  m3 = m3
  None = None
  Device = {a, b}
  User = {alice, bob}
  Owner <- MCOwner
  Msg = {m1, m2}
  From <- MCFrom
  To <- MCTo
  Request = {r1}
  Drainer = {x1}
  AskedLimit = {9}
  MaxLimit = 2
  MaxClock = 2
  BundleCall = {b1, b2, b3}
  Connections = 2
  k1 = k1
  k2 = k2
  Prekey = {k1, k2}
  Upload <- MCUpload
  NoPrekey = NoPrekey
CHECK_DEADLOCK FALSE
PROPERTIES
  EveryMessageArrives
  RequestsEnd
