SPECIFICATION Spec
CONSTANTS
  Port <- BothPorts
  SERIAL_BUF_SIZE = 3
  Texts <- SomeTexts
  MaxLines = 2
  MaxBeats = 0
  MaxFaults = 0
  MaxFlips = 0
PROPERTIES HearsOn
CHECK_DEADLOCK FALSE
