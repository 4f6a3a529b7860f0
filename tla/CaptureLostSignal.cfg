SPECIFICATION Spec
CONSTANTS
  MaxPackets = 1
  MaxSignals = 2
PROPERTY EverySignalStops
CHECK_DEADLOCK FALSE
