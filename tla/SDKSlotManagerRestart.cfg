\* One type, an SDK whose requests may fail, and no symmetry, since the property is a liveness property.
SPECIFICATION FairSpec
CONSTANTS
  Cameras = {cam1}
  Types = {"IMU"}
  Channel <- MCChannel
  Callers = {w1, w2}
  Main = main
  Dealers = {d1, d2}
  NoDealer = NoDealer
  MaxSubscribers = 2
  SdkOutcomes = {TRUE, FALSE}
PROPERTY ReleasedDealerStops
