SPECIFICATION FairSpec
CONSTANTS
  None = None
  Msg = {m1, m2}
  Incoming = {t1}
  MaxUpset = 2
PROPERTY
  StatusesSettle
INVARIANTS
  TypeOK
  StatusNotAhead
  OneEntryEach
