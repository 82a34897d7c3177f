SPECIFICATION Spec
CONSTANTS
  alice = alice
  bob = bob
  a = a
  b = b
  m1 = m1
  m2 = m2
  m3 = m3
  None = None
  Device = {a, b}
  User = {alice}
  Owner <- MCOneOwner
  Msg = {m1, m2, m3}
  From <- MCAllFrom
  To <- MCAllTo
  Request = {r1, r2}
  Drainer = {x1}
  AskedLimit = {0, 9}
  MaxLimit = 2
  MaxClock = 3
SYMMETRY MCMsgSymmetry
INVARIANTS
  InOrder
