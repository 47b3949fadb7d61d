SPECIFICATION FairSpec
CONSTANTS
  visual2d = visual2d
  sensor = sensor
  DrainOrder <- MCDrainOrder
  Depth = 2
  MaxFrames = 3
\* The process ends, or crashes, and frames stop coming at MaxFrames.
CHECK_DEADLOCK FALSE
INVARIANTS
  TypeOK
  FramesInOrder
  MessagesWhole
  FedFromThenOn
PROPERTIES
  AcceptedFramesPublished
  StopReturns
  ImplementsLossyFeed
