\* max_depth_ equal to the capacity, the tightest case: a full queue uses every cell.
SPECIFICATION Spec
CONSTANTS
  Capacity = 4
  MaxDepth = 4
  Items = {f1, f2}
  NoItem = NoItem
  MaxPushes = 7
INVARIANTS
  TypeOK
  NoDataRace
PROPERTY ImplementsDropNewest
