CONSTANTS
  Setups <- Small
  MaxRetries = 2
CHECK_DEADLOCK FALSE
SPECIFICATION FanoutLiveSpec
INVARIANTS
  FanoutTypeOK
  Truthful
  AtMostOnce
  SelectionWhole
PROPERTIES
  AllReported
