CONSTANTS
  Callers = {rpc}
  Controller = controller
  NoThread = nobody
  NumTasks = 2
  StreamedTasks = {2}
  RobotMayFail = TRUE
  MaxSessions = 2
SPECIFICATION Spec
INVARIANTS TypeOK TorqueOnlyInTorqueMode ModeMatchesController ValidOnlyWhileActive
PROPERTIES ImplementsSwitch
