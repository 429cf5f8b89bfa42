\* Two remote ports that may share a tunnel, two runtimes that may be the proxy.
CONSTANTS
  a = a  b = b  a1 = a1  a2 = a2  b1 = b1
  r1 = r1  r2 = r2
  Actor = {a}
  PortsOf <- TwoPorts
  PeerOf <- TwoPeers
  Peer = {r1, r2}
  Self = self  None = none  Freed = freed
  FirstProxy = r1
  MaxIds = 2
  MaxRetries = 1
  MaxPending = 1
  MaxLosses = 1
  MaxCreated = 1
  Faulty = TRUE
SPECIFICATION Spec
INVARIANTS RefCounts EnabledIsConnected
