SPECIFICATION Spec
CONSTANTS
  alice = alice
  bob = bob
  a = a
  b = b
  m1 = m1
  m2 = m2
  m3 = m3
  None = None
  Device = {a, b}
  User = {alice, bob}
  Owner <- MCOwner
  Msg = {m1, m2}
  From <- MCFrom
  To <- MCTo
  Request = {r1, r2}
  Drainer = {x1, x2}
  AskedLimit = {0, 9}
  MaxLimit = 2
  MaxClock = 2
SYMMETRY MCSymmetry
INVARIANTS
  TypeOK
  DisjointDrains
  SelectedStayPending
  HeldIsDelivered
  ReadWasReceived
  BlockRespected
  AcceptedOnce
  StampOrder
PROPERTY
  ImplementsLifecycle
