CONSTANTS
  a1 = a1  a2 = a2  a3 = a3  b2 = b2  c = c
  root = root  far = far
  TipSet <- TipSets
  Parents <- ParentsOf
  ParentWeight <- Weights
  Height <- Heights
  Peer = {p, q}
  BootstrapPeerThreshold = 2
  MaxSyncWorkers = 3
  RecentSyncBufferSize = 2
  NONE = NONE
SPECIFICATION Spec
INVARIANTS NothingOrphaned DedupUnlessDeferred
PROPERTIES DeferredAreLookedAt
