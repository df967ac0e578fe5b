CONSTANTS
  Alarms = {"uart", "other"}
  TickRange = 3
  BUF_LEN = 3
  WRITE_DEPTH = 1
  READ_DEPTH = 2
  WRITE_THRESHOLD = 0
  READ_THRESHOLD = 0
  TicksPerSecond = 1
  INT_MAX = 4
  DEFAULT_TIMEOUT = 2
  Plays <- ThePlays
SPECIFICATION UartSpec
INVARIANTS
  UartTypeOK
  SendIsAwake
  ReceiveIsAwake
PROPERTIES
  CalledOnTime
  PrintsInOrder
  ReadsInOrder
  HostHearsAll
  ReadWakes
  WriteReturns
