\* Two clients that share a channel but no type.
SPECIFICATION HandlerSpec
CONSTANTS
  Cameras = {cam1}
  Types = {"StereoImage", "DepthMap", "IMU"}
  Channel <- MCChannel
  Callers = {w1, w2}
  Main = main
  Dealers = {d1, d2, d3}
  NoDealer = NoDealer
  MaxSubscribers = 3
  SdkOutcomes = {TRUE}
  Clients = {"gui", "viewer"}
  Wants <- MCWants
  FirstCamera = cam1
  NoCamera = NoCamera
  DefaultTypes = {"StereoImage", "IMU"}
  Discipline = "paired"
SYMMETRY Symmetry
INVARIANTS
  SessionTypeOK
  TypesOnlyWhileConnected
  CountIsSubscribers
  SubscribedTypesStream
  NoOrphanedCapture
