CONSTANTS
  arm = arm
  leg = leg
  Clients = {rpc1}
  Nobody = nobody
  Sensors <- TwoSensors
  Codes <- AllAndArms
  NoCode = unknown
  AskedCodes <- AnyCode
  SampleCounts = {1}
  StartupSamples = 1
  ClientsWait = TRUE
SPECIFICATION FairSpec
PROPERTIES CallsReturn
CHECK_DEADLOCK FALSE
