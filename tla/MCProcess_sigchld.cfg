\* A parent and a child, no threads.
CONSTANTS
  MaxTasks = 2
  Code = {1}
  Catcher = {1}
  Cloner = {}
  Execer = {}
  Sends <- Nobody
SPECIFICATION Spec
INVARIANTS SigchldTellsDeath
CHECK_DEADLOCK FALSE
