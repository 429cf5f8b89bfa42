\* One token under way: two slots in the sending queue, two faults.
CONSTANTS
  UIntMod = 100
  NoToken = NoToken
  NilData = NilData
  SndSize = 2
  RcvSize = 3
  MaxTokens = 4
  MaxInFlight = 3
  MaxFaults = 2
  MaxRetries = 1
SPECIFICATION FairSpec
INVARIANTS TypeOK InOrderDelivery FreedIsStored
PROPERTIES ImplementsQueue AllDelivered
\* the bounded number of tokens has been transferred
CHECK_DEADLOCK FALSE
