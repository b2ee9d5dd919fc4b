SPECIFICATION Spec
CHECK_DEADLOCK FALSE
CONSTANTS
  OwnKeys = {"pool", "ip"}
  ForeignKeys = {"assigned"}
  Values = {"v1", "v2"}
  Tries = 2
  MaxEdits = 1
  MaxDeletes = 1
PROPERTY ForeignStateKept
PROPERTY Quiescent
PROPERTY EventuallyConverged
