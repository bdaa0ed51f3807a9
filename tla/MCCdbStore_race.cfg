CONSTANTS
  c1 = c1
  c2 = c2
  c3 = c3
  t1 = t1
  t2 = t2
  t3 = t3
  t4 = t4
  t5 = t5
  u0 = u0
  u1 = u1
  Call = {c1, c2, c3}
  Target = {t1, t2}
  User = {u0, u1}
  NoUser = u0
  Anyone = Anyone
  Absent = Absent
  DefaultPath = TRUE
  MaxAttempts = 4
  MaxForeign = 1
  Files <- RaceFiles
  Work <- RaceWork
CHECK_DEADLOCK FALSE
SPECIFICATION StoreSpec
INVARIANTS
  ReplacesWhatItChecked
  AllLand
  UniqueIdentity
PROPERTIES
  StaysEncrypted
SYMMETRY Callers
