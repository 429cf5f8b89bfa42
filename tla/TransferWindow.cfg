\* Two tokens under way, a receiver that is often full, one fault.
CONSTANTS
  UIntMod = 100
  NoToken = NoToken
  NilData = NilData
  SndSize = 3
  RcvSize = 2
  MaxTokens = 4
  MaxInFlight = 4
  MaxFaults = 1
  MaxRetries = 1
SPECIFICATION Spec
INVARIANTS QueueWellFormed FreedOnlyWhenStored NoNilDelivered
PROPERTY UnreadKept
\* the bounded number of tokens has been transferred
CHECK_DEADLOCK FALSE
