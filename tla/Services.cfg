SPECIFICATION ServicesSpec
CONSTANTS
  con1 = con1
  con2 = con2
  tgt1 = tgt1
  rev1 = rev1
  rev2 = rev2
  Controllers = {con1, con2}
  Targets = {tgt1}
  RevokeTasks = {rev1, rev2}
  NoRevoker = NoRevoker
  HistoryLimit = 1
  MaxClock = 2
  ses1 = ses1
  ses2 = ses2
  mac1 = mac1
  mac2 = mac2
  Sessions = {ses1, ses2}
  Machines = {mac1, mac2}
  Nobody = Nobody
  RELAY_SESSION_MEMORY = 1
  MaxBytes = 2
  MaxTotal = 3
  kp1 = kp1
  kp2 = kp2
  kp3 = kp3
  hbbs1 = hbbs1
  hbbs2 = hbbs2
  hbbr1 = hbbr1
  rot1 = rot1
  rot2 = rot2
  Keys = {kp1, kp2, kp3}
  Blank = Blank
  NoFile = NoFile
  Hbbs = {hbbs1, hbbs2}
  Hbbr = {hbbr1}
  Rotations = {rot1, rot2}
  Seconds = {1, 2}
  cfgA = cfgA
  cfgB = cfgB
  Contents = {cfgA, cfgB}
  Empty = Empty
  Absent = Absent
  Mangled = Mangled
  Unreadable = Unreadable
  MaxSaves = 3
  s1 = s1
  s2 = s2
  k1 = k1
  k2 = k2
  Servers = {s1, s2}
  Checks = {k1, k2}
  MaxInbox = 1
  MaxChanges = 2
  sock1 = sock1
  sock2 = sock2
  Viewers = {con1}
  Desktops = {tgt1}
  Proven = {tgt1}
  Sockets = {sock1, sock2}
  Broker <- MCBroker
  Relay <- MCRelay
  TTL = 1
  MaxAsked = 2
  MaxTime = 2
  NoGrant = NoGrant
INVARIANTS
  RevocationInv
  OrderStands
  
  KeyInv
  SessionInv
  GrantVerifies
  ConfigInv
  RelayServersInv
PROPERTIES
  OldKeyRunsOut
  OfferSettles
