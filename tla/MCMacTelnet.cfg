CONSTANTS
  Setups <- Small
  Tries = 2
CHECK_DEADLOCK FALSE
SPECIFICATION MacLiveSpec
INVARIANTS
  MacTypeOK
  ExecutedOnce
  ShownOnce
  LoginVerdict
  NothingSkipped
  OwnAnswer
PROPERTIES
  InputLands
