\* Two images and three IMU samples, into rings of one; peers subscribe to
\* images by name, and to everything.
SPECIFICATION Spec
CONSTANTS
  StereoImage = StereoImage
  Types = {StereoImage, IMU}
  Topics = {StereoImage}
  Capacity = 1
  QueueDepth = 1
  MaxFrames <- MCMaxFrames
\* Frames stop coming at MaxFrames.
CHECK_DEADLOCK FALSE
INVARIANTS
  TypeOK
  FramesInOrder
PROPERTIES
  NewestDelivered
  ImplementsLossyFeed
