SPECIFICATION Spec
CONSTANTS
  w = w
  s1 = s1
  s2 = s2
  NoSong = NoSong
  Wifi = {w}
  Usb = {}
  StaleAfter = 1
  MaxConnections = 2
  MaxGreetings = 0
  Songs = {s1, s2}
  Length <- Lengths
  MAX_SEQUENCE_LENGTH = 2
  MaxUploads = 2
  MaxChanges = 1
  Timely = TRUE
PROPERTY AtomicSpec
CHECK_DEADLOCK FALSE
