CONSTANTS
  MaxTasks = 4
  Code = {1}
  Catcher = {}
  Cloner = {2}
  Execer = {}
  Sends <- Nobody
SPECIFICATION Spec
INVARIANTS WholeGroupMarked
CHECK_DEADLOCK FALSE
