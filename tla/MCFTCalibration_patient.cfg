CONSTANTS
  arm = arm
  leg = leg
  Clients = {rpc1}
  Nobody = nobody
  Sensors <- TwoSensors
  Codes <- AllAndArms
  NoCode = unknown
  AskedCodes <- AllAndArms
  SampleCounts = {1, 2}
  StartupSamples = 3
  ClientsWait = TRUE
SPECIFICATION FairSpec
INVARIANTS TrueMeansCalibrated
PROPERTIES CallsReturn EstimationResumes
