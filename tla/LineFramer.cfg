SPECIFICATION Spec
CONSTANTS
  Port <- BothPorts
  SERIAL_BUF_SIZE = 3
  Texts <- SomeTexts
  MaxLines = 3
  MaxBeats = 1
  MaxFaults = 1
  MaxFlips = 1
INVARIANTS
  TypeOK
  WholeLines
  NoMixture
  BeatsGetThrough
  DamageContained
PROPERTIES
  AllHeard
CHECK_DEADLOCK FALSE
