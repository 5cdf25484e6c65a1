CONSTANTS
  Clients = {c1, c2}
  c1 = c1
  c2 = c2
  WholeCallers = {c1}
  PidsCallers = {c2}
  Joints <- TwoJoints
  Coupled <- SecondMixed
  Requests <- AFewRequests
  OtherClients = TRUE
  MaxCalls = 3
  MaxForeign = 1
SPECIFICATION FairSpec
INVARIANTS ReportsTheAskedMode DiscardsOldReferences
PROPERTIES DrivesOnlyTheHijacked AnswersAndDrives
CHECK_DEADLOCK FALSE
