\* One camera, two API workers and the main thread, two dealer threads.
SPECIFICATION Spec
CONSTANTS
  Cameras = {cam1}
  Types = {"StereoImage", "DepthMap", "IMU"}
  Channel <- MCChannel
  Callers = {w1, w2}
  Main = main
  Dealers = {d1, d2}
  NoDealer = NoDealer
  MaxSubscribers = 2
  SdkOutcomes = {TRUE, FALSE}
SYMMETRY Symmetry
INVARIANTS
  TypeOK
  CapturingIffSubscribed
  HandleIffCapturing
  EveryDealerHasOneOwner
  ActiveTypesServed
PROPERTY DealerFollowsCount
