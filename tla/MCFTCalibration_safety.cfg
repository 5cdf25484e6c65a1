CONSTANTS
  arm = arm
  leg = leg
  Clients = {rpc1, rpc2}
  Nobody = nobody
  Sensors <- TwoSensors
  Codes <- AllAndArms
  NoCode = unknown
  AskedCodes <- AnyCode
  SampleCounts = {0, 2}
  StartupSamples = 3
  ClientsWait = FALSE
SPECIFICATION Spec
SYMMETRY ClientSymmetry
INVARIANTS TypeOK AssertionHolds OwnSamplesOnly OnlyAskedSensors RightBase
CHECK_DEADLOCK FALSE
