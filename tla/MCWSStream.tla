----------------------------- MODULE MCWSStream -----------------------------
(* Instances of WSStream for TLC: IMU samples come faster than images. *)
EXTENDS WSStream

MCMaxFrames == [t \in Types |-> IF t = StereoImage THEN 2 ELSE 3]
=============================================================================
