CONSTANTS
  Cid = {1, 2}
  Name = {1}
  Time = {1, 2}
  NULL = 0
  Request <- Deals
  Handler = {h1, h2, h3}
  NoHandler = NoHandler
SPECIFICATION FairStoreSpec
INVARIANTS AnsweredIsCatalogued CatalogRooted
PROPERTIES Refinement RequestsAnswered
