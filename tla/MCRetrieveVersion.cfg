CONSTANTS
  Proc = {p1, p2}
  Cid = {1, 2, 3, 4}
  Path = {o1}
  Chain <- ChainOf
  Prev <- PrevOf
  MaxIndex = 2
  Exclusive = TRUE
  NONE = NONE
SPECIFICATION FairSpec
INVARIANTS ReconstructedIsRequested OutputIsAVersion
PROPERTIES RetrievalsEnd
CHECK_DEADLOCK FALSE
