CONSTANTS
  USB_NAK_LIMIT = 2
  USB_RETRY_LIMIT = 2
  MaxPackets = 2
  MaxReports = 2
  MaxAttach = 1
SPECIFICATION Spec
INVARIANTS
  TypeOK
  ReadIsIntact
PROPERTIES
  TransfersEnd
  ReportArrives
  IsAChannel
