SPECIFICATION DevicesSpec
CONSTANTS
  k1 = k1
  k2 = k2
  p1 = p1
  p2 = p2
  bad = bad
  r1 = r1
  Free = Free
  Unminted = Unminted
  Deleted = Deleted
  NoAsk = NoAsk
  Keys = {k1, k2}
  Peers = {p1, p2, bad}
  Malformed = {bad}
  Holds <- MCHolds
  Requests = {r1}
  AllowUnbound = FALSE
  MaxPerKey = 1
  MaxClaims = 1
  MaxSeen = 1
  mine = mine
  other = other
  pol1 = pol1
  key = key
  key2 = key2
  Self = mine
  OtherPeers = {other}
  PolicyNames = {pol1}
  Policies <- MCPolicies
  Empty <- NoOptions
  NoPolicy = NoPolicy
  Accounts <- MCAccounts
  DevKey = key
  OtherKey = key2
  NoProof = NoProof
  MaxEdits = 1
  c1 = c1
  c2 = c2
  i1 = i1
  i2 = i2
  Conns = {c1, c2}
  Ids = {i1, i2}
  NoId = NoId
  NoConn = NoConn
  MaxWire = 1
  MaxQueue = 1
  a1 = a1
  id1 = id1
  id2 = id2
  id3 = id3
  pair1 = pair1
  pair2 = pair2
  Addresses = {a1}
  RegIds = {id1, id2, id3}
  AttemptLimit = 2
  IdLimit = 1
  BlockFor = 2
  IdsFor = 4
  Pairs = {pair1, pair2}
  DedupeFor = 2
  LookBack = 1
  MAX_PUNCH_REQS = 4
  Unseen = Unseen
SYMMETRY
  Alike
INVARIANTS
  KeysIInv
  PolicyInv
  ChannelInv
  LatestIsReached
  LimitsInv
PROPERTIES
  OneTokenOneMachine
  DenialSticks
