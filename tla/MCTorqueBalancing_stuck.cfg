CONSTANTS
  Callers = {rpc}
  Controller = controller
  NoThread = nobody
  NumTasks = 1
  StreamedTasks = {}
  RobotMayFail = TRUE
  MaxSessions = 2
SPECIFICATION FairSpec
PROPERTIES CallsReturn
CHECK_DEADLOCK FALSE
