CONSTANTS
  c1 = c1
  c2 = c2
  c3 = c3
  t1 = t1
  t2 = t2
  t3 = t3
  t4 = t4
  t5 = t5
  u0 = u0
  u1 = u1
  Call = {c1, c2}
  Target = {t1, t2, t3}
  User = {u0, u1}
  NoUser = u0
  Anyone = Anyone
  Absent = Absent
  DefaultPath = TRUE
  MaxAttempts = 2
  MaxForeign = 0
  Files <- MixedFiles
  Work <- MixedWork
CHECK_DEADLOCK FALSE
SPECIFICATION StoreLiveSpec
INVARIANTS
  StoreTypeOK
  ConflictMeansContention
PROPERTIES
  ImplementsRegister
  EveryCallSettles
