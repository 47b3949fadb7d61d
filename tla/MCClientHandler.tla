--------------------------- MODULE MCClientHandler ---------------------------
(* Instances of ClientHandler for TLC. *)
EXTENDS ClientHandler, TLC

MCChannel == [t \in Types |-> IF t = "IMU" THEN "sensor_data" ELSE "visual_2d"]

\* A client that asks for the default types, a viewer of another type, and
\* clients that ask for a type the first one has too.
MCWants ==
  [k \in Clients |-> IF k = "gui" THEN {"StereoImage", "IMU"}
                     ELSE IF k = "viewer" THEN {"DepthMap"}
                     ELSE {"IMU"}]

\* Threads are interchangeable: workers among themselves, dealers too.
Symmetry == Permutations(Callers) \union Permutations(Dealers)
==============================================================================
