CONSTANTS
  c1 = c1
  c2 = c2
  c3 = c3
  c4 = c4
  p1 = p1
  p2 = p2
  p3 = p3
  p4 = p4
  h1 = h1
  h2 = h2
  Call = {c1, c2, c3}
  Proc = {p1, p2, p3}
  Host = {h1}
  procOf <- ProcOfCall
  hostOf <- RivalsHost
  pidOf <- RivalsPid
  MaxAcquire = 1
  NoLock = NoLock
  Unreadable = Unreadable
  NoCall = NoCall
CHECK_DEADLOCK FALSE
SPECIFICATION LockLiveSpec
INVARIANTS
  LockTypeOK
  MutualExclusion
PROPERTIES
  DeadHolderRecovered
