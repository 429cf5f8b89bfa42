\* Two actors with out-ports of the default length, a restart at any time.
CONSTANTS
  NActors = 2
  Sleep <- TwoSleeps
  Start = 1
  Steps = 6
  QueueLen = 3
  Inactivity = 2
  UseSleep = FALSE
  MaxRestores = 1
SPECIFICATION FairSpec
INVARIANTS TypeOK OneTimer TimerRuns
PROPERTIES NotEarly AllCounted
