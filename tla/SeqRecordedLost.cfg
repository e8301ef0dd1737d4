SPECIFICATION Spec
CONSTANTS
  NUM_KEYS = 1
  MAX_SEQUENCE_LENGTH = 2
  MAX_KEYS_PER_STEP = 2
  DefaultLength = 2
  Duration = 1
  MaxPresses = 2
  MaxCommands = 0
  MaxRecordings = 1
  MaxLines = 0
  MaxEvents = 1
  MaxInputs = 4
  UploadHeaders <- Nothing
  UploadIds <- Nothing
  UploadKeys <- Nothing
PROPERTIES OnlyDefaultsRefreshed
