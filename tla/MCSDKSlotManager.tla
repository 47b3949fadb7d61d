-------------------------- MODULE MCSDKSlotManager --------------------------
(* Instances of SDKSlotManager for TLC. *)
EXTENDS SDKSlotManager, TLC

\* Two types share a channel, so a stop can leave a channel in use.
MCChannel == [t \in Types |-> IF t = "IMU" THEN "sensor_data" ELSE "visual_2d"]

\* Threads are interchangeable: callers among themselves, dealers too.
Symmetry == Permutations(Callers) \union Permutations(Dealers)
=============================================================================
