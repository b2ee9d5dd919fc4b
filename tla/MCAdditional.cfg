SPECIFICATION Spec
CHECK_DEADLOCK FALSE
CONSTANTS
  Suffixes = {"-2", "-3"}
  MaxEdits = 2
INVARIANT TypeOK
PROPERTY ServerSpared
PROPERTY EventuallyExact
