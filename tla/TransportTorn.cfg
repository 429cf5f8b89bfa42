SPECIFICATION Spec
CONSTANTS
  Hosts = {"x86"}
  PrefixSize = 4
  Sizes = {1, 3}
  TornMessages = TRUE
  SplitHosts = {}
  Uri <- MCUri
  MaxFds = 4
  MaxFaults = 3
  MaxMessages = 3
INVARIANT CompleteMessages
CHECK_DEADLOCK FALSE
