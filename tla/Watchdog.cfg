SPECIFICATION FairSpec
CONSTANTS
  MaxCores = 4
INVARIANTS
  OneCore
  DirOutlivesCore
PROPERTIES
  CoreComesBack
  NothingIsLeft
CHECK_DEADLOCK FALSE
