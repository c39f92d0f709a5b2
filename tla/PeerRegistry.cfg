SPECIFICATION RegistrySpec
CONSTANTS
  t1 = t1
  t2 = t2
  m1 = m1
  Ann = Ann
  Bob = Bob
  Nothing = Nothing
  Parts = {"any", "udp"}
  Tasks = {t1, t2}
  Admins = {m1}
  Requests <- TwoMachines
  Faults = {"db_error", "delete", "restart"}
  MaxOps = 3
  MaxRows = 2
SYMMETRY
  AnyTask
INVARIANTS
  StatusReachesMemory
  UdpInv
  UdpAckedIsListed
PROPERTY
  RowKeepsMachine
