SPECIFICATION FairSpec
CONSTANTS
  Hosts = {"x86", "esp8266", "spritzer", "android", "fcm"}
  PrefixSize = 4
  Sizes = {1, 3}
  TornMessages = FALSE
  SplitHosts = {"esp8266", "spritzer"}
  Uri <- MCUri
  MaxFds = 4
  MaxFaults = 3
  MaxMessages = 3
INVARIANTS TypeOK
PROPERTIES ImplementsChannel Rejoins AllHandled
CHECK_DEADLOCK FALSE
