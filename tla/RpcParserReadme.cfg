CONSTANTS
  Names = {"MathService", "isPrime", "num", "x", "y"}
  Sources <- ReadmeSources
  ValidTexts = {}
  AllocMayFail = TRUE

SPECIFICATION Spec

CHECK_DEADLOCK FALSE

INVARIANT DocumentedAccepted
