CONSTANTS
  Words = {w1, w2}
  ResetWord = zero
  Torn = torn
  SourceWaits = "ack"
  Clocks = "any"
  ReadyAlways = FALSE
  MaxSends = 3
SPECIFICATION Spec
CHECK_DEADLOCK FALSE
INVARIANTS Handshake
PROPERTIES ImplementsChannel
