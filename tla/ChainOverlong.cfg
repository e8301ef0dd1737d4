SPECIFICATION LiveSpec
CONSTANTS
  N = 3
  MAX_MODULES = 2
  Interval = 1
  Timeout = 2
  LinkCap = 3
  MaxUpsets = 1
  MaxNoise = 1
  MaxCommands = 1
  MaxRecordings = 0
  MaxEvents = 2
INVARIANTS
  TypeOK
  MasterHasIndexZero
  AddressesInRange
PROPERTIES
  NoSpuriousPromotion
  RolesConverge
  LonelyBroadcastEnds
