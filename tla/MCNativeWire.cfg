CONSTANTS
  hello = hello
  proof = proof
  read = read
  watch = watch
  Talk = {hello, proof, read}
  Stream = {watch}
  Hello = hello
  Proof = proof
  GraceGiven = {watch}
  MaxRows <- FewRows
  MaxInFlight = 2
  Sentences <- FewSentences
  MaxSaid = 6
  ChunkSizes = {1, 2, 5, 100}
  Lengths <- Boundaries
CHECK_DEADLOCK FALSE
SPECIFICATION BothSpec
INVARIANTS
  SessionTypeOK
  LengthsSurvive
  ChunksDoNotMatter
PROPERTIES
  ImplementsCalls
  EarlyEndHidesNoTrap
  StopEnds
