SPECIFICATION PartsSpec
CONSTANTS
  AnyCall = AnyCall
  Device = {d1, d2}
  Call = {c1, c2}
  AskedLimit = {0, 2, 9}
  MaxLimit = 3
  MaxQueue = 3
  MaxSent = 4
  Registrant = {r1, r2}
  Nickname = {u1, u2}
  Invite = {i1, i2}
  InviteLife = 1
  LastDay = 2
  Nobody = Nobody
  BundleCall = {b1, b2, b3}
  Connections = 3
  k1 = k1
  k2 = k2
  Prekey = {k1, k2}
  Upload <- MCUpload
  NoPrekey = NoPrekey
  Owner = {o1, o2}
  BlobId <- MCBlobId
  FileSize = {1, 4, 5}
  MaxFile = 4
  MaxBlob = 4
  MaxChunk = 3
  ChunkSize = 2
  Overhead = 1
  Client = {p1, p2}
  Token = {t1, t2}
  Websocket = {w1, w2}
  OnlineTTL = 2
  PollPeriod = 1
  NoToken = NoToken
  LoginCall = {l1, l2}
  MaxAttempts = 3
  LoginWindow = 2
  BlockTime = 4
  Account = {a1, a2}
  Password = {x1, x2}
  Plain = Plain
  Absent = Absent
  Torn = Torn
  NoOne = NoAccount
  MaxKey = 3
  Peer = {q1, q2}
  NoPeer = NoPeer
  MaxChanges = 2
  MaxFlows = 3
  BufferStart = 5
  BufferMin = 2
  BufferTarget = 9
  BufferMax = 20
  Packet = {1, 3, 8}
  OutputFrames = {0, 1, 4}
  Version <- MCVersion
  Text = Text
  NoVersion = NoVersion
  MaxRestarts = 2
SYMMETRY MCSymmetry
CHECK_DEADLOCK FALSE
INVARIANTS
  PartsTypeOK
  SignalsConserved
  SignalsInOrder
  OneInviteOneAccount
  PrekeyOnce
  ReferencedComplete
  BlobBounded
  ConnectedIsOnline
  AttemptsBounded
  LateLogoutHarmless
  UnpinnedSessionWarned
  NoStutter
  RefusedIsOffered
PROPERTIES
  IdentityKept
