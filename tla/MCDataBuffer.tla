----------------------------- MODULE MCDataBuffer -----------------------------
(* The default depth, whose ring is rounded up to 4 frames. *)
EXTENDS DataBuffer

MCMaxFrames == 3
MCCapacity  == NextPowerOfTwo(MCMaxFrames)
===============================================================================
