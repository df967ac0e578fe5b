CONSTANTS
  Devices <- TheDevices
  LowSpeed = {"keyboard"}
  Class <- TheClasses
  KeyCodes = {0, 26}
  USB_NUMDEVICES = 3
  MaxEvents = 5
SPECIFICATION UsbSpec
INVARIANTS
  UsbTypeOK
  RunningMeansConnected
  DeviceIsThePluggedOne
PROPERTIES
  KeysComeFromAKeyboard
  UnplugStopsPolling
