CONSTANTS
  Callers = {rpc}
  Controller = controller
  NoThread = nobody
  NumTasks = 2
  StreamedTasks = {}
  RobotMayFail = FALSE
  MaxSessions = 2
SPECIFICATION Spec
INVARIANT StaysStill
CHECK_DEADLOCK FALSE
