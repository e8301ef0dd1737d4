SPECIFICATION Spec
CONSTANTS
  p = p
  m1 = m1
  m2 = m2
  Page = {p}
  Ip = {m1, m2}
  Files <- SmallFiles
  Demos <- ThreeDemos
  Entered <- SomeSteps
  MaxPolls = 2
  Sessions <- SmallSessions
  FewFiles <- SomeFiles
  MAX_MIDI = 9
  OCTAVE = 2
  MIN_SUPPORTED_MIDI = 4
  KEYS = 3
  MAX_TOTAL_KEYS = 5
  MAX_RAW_MIDI_SPAN_SEMITONES = 4
  MAX_IMPORTABLE_NOTE_COUNT = 3
  MAX_SEQUENCE_LENGTH = 2
  MAX_KEYS_PER_STEP = 2
  MIN_NOTE_DURATION_MS = 1
  MAX_NOTE_DURATION_MS = 2
INVARIANTS TypeOK LibraryPlays ImportFaithful
PROPERTIES KeyboardFollows PageFrees
CHECK_DEADLOCK FALSE
