SPECIFICATION FairSpec
CONSTANTS
  Proxy = {p1, p2}
  Uris <- MCUris
  None = None
  RefModulus = 256
  UseSleep = TRUE
  Checkpointing = TRUE
  Faulty = TRUE
  MaxLosses = 1
  MaxBoots = 2
  MaxMessages = 1
  MaxSleeps = 1
INVARIANTS TypeOK StartedIsConnected StartedIsConfigured
PROPERTIES StopReleases SleepKeepsTunnels Connects Abolished
CHECK_DEADLOCK FALSE
