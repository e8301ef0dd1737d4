SPECIFICATION Spec
CONSTANTS
  NUM_KEYS = 1
  MAX_SEQUENCE_LENGTH = 2
  MAX_KEYS_PER_STEP = 2
  DefaultLength = 2
  Duration = 1
  MaxPresses = 2
  MaxCommands = 1
  MaxRecordings = 1
  MaxLines = 6
  MaxEvents = 1
  MaxInputs = 6
  UploadHeaders <- ThreeHeaders
  UploadIds <- TwoIds
  UploadKeys <- OneStep
INVARIANTS
  TypeOK
  OneWriter
  RecordingFits
  StepInArray
  StoredWhole
PROPERTIES
  ServosRest
  GuidedHeld
  TeachingEnds
