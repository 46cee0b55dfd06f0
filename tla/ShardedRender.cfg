SPECIFICATION Spec
CONSTANTS
  Requests <- AnyRequest
  MaxShards = 4
  MaxStep = 2
INVARIANTS TypeOK FramesFitSlides ShardsAreShards JoinedIsWhole FramesInOrder
CHECK_DEADLOCK FALSE
