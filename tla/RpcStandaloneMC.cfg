CONSTANTS
  SizeMax = 127
  U32Max = 15
  I32Max = 7
  WordBytes = 2
  InitCap = 4
  HeapMax = 32
  StrLens <- MCStrLens
  Clients = {"a", "b"}
  NoConnection = "none"
  ByteSize = 4
  Numbers <- SomeNumbers
  Garbage <- SomeGarbage
  Order = "little"
  MaxFds = 1
  Pieces = TRUE
  ClientsDie = TRUE
  NetworkFails = TRUE

SPECIFICATION StandaloneSpec

CHECK_DEADLOCK FALSE

INVARIANTS
  TypeOK
  InBounds
  StringFits
  GrowthNeverWraps
  AnswersAsked
  AllClosed
  PrimesConfirmed
  DecidesBelowSquare

PROPERTIES
  GrowTerminates
  SurvivorsReturn
