CONSTANTS
  Devices <- TheDevices
  LowSpeed = {"keyboard"}
  Class <- TheClasses
  KeyCodes = {0, 26}
  USB_NUMDEVICES = 3
  MaxEvents = 2
SPECIFICATION UsbSpec
PROPERTY
  SettleStartsTheDelay
