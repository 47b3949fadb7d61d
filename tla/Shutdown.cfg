\* Two servers, each with one worker and one connection at a time, and two dealers.
SPECIFICATION ServiceSpec
CONSTANTS
  Cameras = {cam1}
  Types = {"IMU"}
  Channel <- MCChannel
  Callers = {w2, w3}
  Main = main
  Dealers = {d1, d2}
  NoDealer = NoDealer
  MaxSubscribers = 1
  SdkOutcomes = {TRUE}
  api2 = api2
  api3 = api3
  w2 = w2
  w3 = w3
  c2 = c2
  c3 = c3
  Servers = {api2, api3}
  Conns = {c2, c3}
  Server <- MCServer
  MayFail = {api2}
  StopOrder <- MCStopOrder
\* The process ends, or hangs in its shutdown.
CHECK_DEADLOCK FALSE
INVARIANTS
  ServiceTypeOK
  ConnsHaveOneOwner
  ExitLeavesNothing
PROPERTIES
  
  ConfigSynced
  ShutdownReturns
