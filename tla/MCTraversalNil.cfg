CONSTANTS
  MaxNodes = 2
SPECIFICATION Spec
INVARIANTS
  YieldsEveryNode
CHECK_DEADLOCK FALSE
