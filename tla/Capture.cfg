SPECIFICATION Spec
CONSTANTS
  MaxPackets = 2
  MaxSignals = 2
INVARIANTS
  HandlerSeesOpenHandle
  NothingLeftOpen
  KilledBeforeCapture
  SinksAgree
PROPERTIES
  StopHonoured
  SessionKept
CHECK_DEADLOCK FALSE
