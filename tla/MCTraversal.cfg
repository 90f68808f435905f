CONSTANTS
  MaxNodes = 5
SPECIFICATION FairSpec
INVARIANTS
  TypeOK
PROPERTIES
  Enumerates
  Ends
CHECK_DEADLOCK FALSE
