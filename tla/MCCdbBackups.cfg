CONSTANTS
  c1 = c1
  c2 = c2
  c3 = c3
  c4 = c4
  p1 = p1
  p2 = p2
  p3 = p3
  p4 = p4
  h1 = h1
  h2 = h2
  Call = {c1, c2, c3, c4}
  Proc = {p1, p2, p3, p4}
  Host = {h1, h2}
  procOf <- ProcOfCall
  hostOf <- NamesakesHost
  pidOf <- NamesakesPid
  MaxAcquire = 1
  NoLock = NoLock
  Unreadable = Unreadable
  NoCall = NoCall
  Stamps = {1, 2}
  Retentions <- KeepSome
  MaxOverwrites = 4
CHECK_DEADLOCK FALSE
SPECIFICATION BothSpec
INVARIANTS
  NewestBackupsStay
PROPERTIES
  OnlyOwnerOrDead
  ImplementsMutex
