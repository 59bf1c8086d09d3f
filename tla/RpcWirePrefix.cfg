CONSTANTS
  ByteSize = 4
  Requests <- SomeRequests
  MethodIds = {0, 255}
  Window = 5
  MaxSent = 24

SPECIFICATION Spec

CHECK_DEADLOCK FALSE

INVARIANT PrefixDescribes
