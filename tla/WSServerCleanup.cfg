SPECIFICATION FairSpec
CONSTANTS Conns = {c1}
CHECK_DEADLOCK FALSE
PROPERTY DisconnectedErased
