SPECIFICATION FairSpec
CONSTANTS Conns = {c1, c2}
\* The process ends, or hangs in the clean-up.
CHECK_DEADLOCK FALSE
INVARIANTS
  TypeOK
  SessionsUsedSafely
PROPERTIES
  ClosedConnsErasedUnlessHung
  StopReturns
