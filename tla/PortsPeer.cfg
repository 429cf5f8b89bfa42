\* One remote port.
CONSTANTS
  a = a  b = b  a1 = a1  a2 = a2  b1 = b1
  r1 = r1  r2 = r2
  Actor = {a}
  PortsOf <- OnePort
  PeerOf <- OnePeer
  Peer = {r1}
  Self = self  None = none  Freed = freed
  FirstProxy = r1
  MaxIds = 2
  MaxRetries = 2
  MaxPending = 1
  MaxLosses = 0
  MaxCreated = 1
  Faulty = FALSE
SPECIFICATION Spec
INVARIANT EnabledHasPeer
