SPECIFICATION FairSpec
CONSTANTS
  conn1 = conn1
  conn2 = conn2
  conn3 = conn3
  grant1 = grant1
  grant2 = grant2
  plain = plain
  mapped = mapped
  NoGrant = NoGrant
  NoConn = NoConn
  Conns = {conn1, conn2, conn3}
  Ips = {plain, mapped}
  RawIp <- MCRawIp
  V4Ip <- MCV4Ip
  Grants = {grant1, grant2}
  Expiry <- MCExpiry
  ParkTime = 1
  MaxNow = 1
INVARIANTS
  IInv
  CountedRowIsLabelled
PROPERTIES
  ParkEndsForAReason
  MatchSpec
  ParkEnds
  BlockedRelayEnds
