SPECIFICATION AssembledSpec
CONSTANTS
  N = 3
  MAX_MODULES = 3
  Interval = 1
  Timeout = 2
  LinkCap = 3
  MaxUpsets = 1
  MaxNoise = 0
  MaxCommands = 1
  MaxRecordings = 1
  MaxEvents = 2
INVARIANTS
  NotesMatch
  SlavesOnlyBroadcast
  IndexWithinReach
PROPERTIES
  RoleChangeSilences
  BroadcastAgrees
