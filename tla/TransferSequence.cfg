\* Default sending queue, no faults.
CONSTANTS
  UIntMod = 100
  NoToken = NoToken
  NilData = NilData
  SndSize = 4
  RcvSize = 3
  MaxTokens = 4
  MaxInFlight = 4
  MaxFaults = 0
  MaxRetries = 1
SPECIFICATION Spec
INVARIANT StoredInSequence
CHECK_DEADLOCK FALSE
