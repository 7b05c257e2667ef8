CONSTANTS
  Calls = 2
  WaitTime = 2
  HardTimeout = 3
  MaxQueue = 1
  Systems <- MCSystems
SPECIFICATION FairSpec
INVARIANT NoFalseTimeout
PROPERTIES
  ConvergedMeansQuiet
  AlarmsOnlyForUnasked
  SettledConverges
  CallsEndCleanly
