CONSTANTS
  FIFO_DEPTH = 4
  Retries = 2
  Junk = {0, 160}
  RegsAtReset <- TheRegisters
  Script <- TheScript
SPECIFICATION Spec
INVARIANT
  RetryIsTheSameCommand
CHECK_DEADLOCK FALSE
