SPECIFICATION Spec
CONSTANTS
  Hosts = {"x86", "x86_coap", "esp8266", "android"}
  a1 = a1
  a2 = a2
  Actors = {a1, a2}
  ActorsOn <- MCActorsOn
  Args = {"none", "set", "zero", "other"}
  Tokens = {"uint", "other"}
  Replies = {TRUE, FALSE}
  QueueSize = 1
  MaxFds = 1
  MaxReadings = 2
  MaxMoves = 4
INVARIANTS TypeOK ObjectsOwned TriggersAnswered StillMeasures
CHECK_DEADLOCK FALSE
