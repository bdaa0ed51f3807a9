CONSTANTS
  hello = hello
  proof = proof
  read = read
  watch = watch
  Talk = {hello, proof, read}
  Stream = {watch}
  Hello = hello
  Proof = proof
  GraceGiven = {watch}
  MaxRows <- FewRows
  MaxInFlight = 2
CHECK_DEADLOCK FALSE
SPECIFICATION SessionSpec

INVARIANTS
  FailedConnectShutsSocket
