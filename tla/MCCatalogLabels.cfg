CONSTANTS
  Cid = {1, 2, 3, 4, 5}
  Name = {1, 2}
  Time = {1, 2}
  NULL = 0
  Request <- TwoFiles
SPECIFICATION Spec
INVARIANTS NoOrphans LabelsTellThePath PreviousListedFirst
PROPERTIES LabelsMoveOnlyForAnEarlierSibling
