SPECIFICATION RegistrySpec
CONSTANTS
  w = w
  u = u
  Wifi = {w}
  Usb = {u}
  StaleAfter = 1
  MaxConnections = 2
  MaxGreetings = 1
INVARIANTS LabelsUnique LiveListed SerialSound
PROPERTIES GoneUnlisted
CHECK_DEADLOCK FALSE
