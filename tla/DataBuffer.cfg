\* One camera with two slots, six frames into a ring of four.
SPECIFICATION Spec
CONSTANTS
  Cameras = {cam1}
  Types = {StereoImage, IMU}
  Frames = {f1, f2}
  NoFrame = NoFrame
  NoSlot = NoSlot
  MaxFrames <- MCMaxFrames
  Capacity <- MCCapacity
  MaxWrites = 6
INVARIANTS
  TypeOK
  ReadersSeeNewest
PROPERTY ImplementsLatestFrames
