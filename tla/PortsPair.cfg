\* A pair of actors on the node, one of which is also connected elsewhere.
CONSTANTS
  a = a  b = b  a1 = a1  a2 = a2  b1 = b1
  r1 = r1  r2 = r2
  Actor = {a, b}
  PortsOf <- PairPorts
  PeerOf <- PairPeers
  Peer = {r1}
  Self = self  None = none  Freed = freed
  FirstProxy = r1
  MaxIds = 2
  MaxRetries = 1
  MaxPending = 1
  MaxLosses = 1
  MaxCreated = 2
  Faulty = FALSE
SPECIFICATION Spec
INVARIANTS TypeOK RefCounts EnabledIsConnected
