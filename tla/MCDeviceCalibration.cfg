CONSTANTS
  base_link = base_link
  l_sole = l_sole
  no_frame = no_frame
  BaseLink = base_link
  Frames <- ThreeFrames
  KnownFrames <- TwoFrames
  Clients = {rpc1, rpc2}
  Kinds = {"calib", "reset"}
  SampleCounts <- AnyCount
  StartupSamples = 2
  SizeMax = 3
  MaxCalls = 2
SPECIFICATION FairSpec
INVARIANTS TypeOK OffsetOfItsCommand NoCompensationLeft
PROPERTIES CalibrationsEnd CommandsAnswered DetachReturns
CHECK_DEADLOCK FALSE
