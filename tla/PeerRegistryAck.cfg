SPECIFICATION RegistrySpec
CONSTANTS
  t1 = t1
  t2 = t2
  m1 = m1
  Ann = Ann
  Bob = Bob
  Nothing = Nothing
  Parts = {"any"}
  Tasks = {t1}
  Admins = {m1}
  Requests <- OneMachine
  Faults = {"db_error", "restart"}
  MaxOps = 2
  MaxRows = 2
INVARIANT
  AckedIsListed
