--------------------------- MODULE MCDataPublisher ---------------------------
(* Two of the three channels: their queues are drained in this order.        *)
EXTENDS DataPublisher

CONSTANTS visual2d, sensor

MCDrainOrder == <<visual2d, sensor>>
==============================================================================
