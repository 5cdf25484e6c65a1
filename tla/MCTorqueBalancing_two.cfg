CONSTANTS
  Callers = {rpc, main}
  Controller = controller
  NoThread = nobody
  NumTasks = 1
  StreamedTasks = {}
  RobotMayFail = FALSE
  MaxSessions = 1
SPECIFICATION FairSpec
PROPERTIES CallsReturn
