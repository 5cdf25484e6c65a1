CONSTANTS
  Callers = {rpc}
  Controller = controller
  NoThread = nobody
  NumTasks = 2
  StreamedTasks = {1, 2}
  RobotMayFail = FALSE
  MaxSessions = 2
SPECIFICATION FairSpec
INVARIANTS AllThreadsAgree DiscardsOldReferences PublishesCurrentSession
PROPERTIES EventuallyStill
