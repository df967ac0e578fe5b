CONSTANTS
  FIFO_DEPTH = 4
  Retries = 2
  Junk = {0, 160}
  RegsAtReset <- TheRegisters
  Script <- TheScript
SPECIFICATION Spec
INVARIANTS
  CodecTypeOK
  StartsAfresh
  FirstReadIsRight
PROPERTIES
  SetupEnds
  IsSetUpInOrder
CHECK_DEADLOCK FALSE
