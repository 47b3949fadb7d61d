----------------------------- MODULE MCShutdown -----------------------------
(* Instances of Shutdown for TLC. *)
EXTENDS Shutdown

CONSTANTS api2, api3, w2, w3, c2, c3

MCChannel   == [t \in Types |-> "sensor_data"]
MCServer    == [x \in {w2, w3, c2, c3} |-> IF x \in {w2, c2} THEN api2 ELSE api3]
MCStopOrder == <<api2, api3>>
=============================================================================
