SPECIFICATION Spec
CONSTANTS
  Scripts <- EmptyLast
  ReadSize = 9
INVARIANT EmptyStringsDecoded
CHECK_DEADLOCK FALSE
