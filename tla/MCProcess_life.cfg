CONSTANTS
  MaxTasks = 3
  Code = {1}
  Catcher = {1}
  Cloner = {1, 2}
  Execer = {2}
  Sends <- StopThird
SPECIFICATION FairSpec
INVARIANTS TypeOK  
PROPERTIES ExitFinishes
CHECK_DEADLOCK FALSE
