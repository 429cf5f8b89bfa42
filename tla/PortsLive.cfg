\* Two remote ports; the connection is not lost and requests are not refused.
CONSTANTS
  a = a  b = b  a1 = a1  a2 = a2  b1 = b1
  r1 = r1  r2 = r2
  Actor = {a}
  PortsOf <- TwoPorts
  PeerOf <- TwoPeers
  Peer = {r1}
  Self = self  None = none  Freed = freed
  FirstProxy = r1
  MaxIds = 3
  MaxRetries = 2
  MaxPending = 2
  MaxLosses = 0
  MaxCreated = 1
  Faulty = FALSE
SPECIFICATION FairSpec
INVARIANT WaitingAnswered
PROPERTY WaitingEnds
