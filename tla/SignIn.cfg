SPECIFICATION SignInSpec
CONSTANTS
  ann = ann
  key1 = key1
  tok1 = tok1
  in1 = in1
  tab1 = tab1
  tab2 = tab2
  few = few
  many = many
  Users = {ann}
  DevKeys = {key1}
  NoKey = NoKey
  Rights = {few, many}
  Absent = Absent
  Tokens = {tok1}
  NoSession = NoSession
  SignIns = {in1}
  Tabs = {tab1, tab2}
  MaxVersion = 2
  cred1 = cred1
  cred2 = cred2
  cred3 = cred3
  req1 = req1
  old1 = old1
  Credentials = {cred1, cred2, cred3}
  Sealed = {req1}
  Bare = {old1}
  SealedAt <- MCSealedAt
  MaxAge = 2
  MaxSkew = 1
  MaxNonces = 2
  MaxTime = 3
  acc1 = acc1
  acc2 = acc2
  acc3 = acc3
  src1 = src1
  src2 = src2
  att1 = att1
  att2 = att2
  Usernames = {acc1, acc2, acc3}
  Sources = {src1, src2}
  Attempts = {att1}
  SourceWindow = 2
  SourceMax = 1
  SourceCooldown = 3
  FleetWindow = 2
  FleetMax = 2
  FleetCooldown = 1
  MaxTracked = 1
  Untracked = Untracked
  Waiting = Waiting
  LastTick = 4
  d1 = d1
  d2 = d2
  n1 = n1
  n2 = n2
  Accounts = {d1, d2}
  Names = {n1, n2}
  NoName = NoName
  NoAccount = NoAccount
  MaxRenames = 2
SYMMETRY
  Alike
INVARIANTS
  LoginIInv
  ReplayInv
  SprayInv
  DirectoryInv
PROPERTIES
  ReplayNeedsCause
  ClosesForCause
