CONSTANTS
  Proc = {p1, p2, p3}
  Sector = {s1}
  FileType = {sealed}
  Obj = {o1, o2}
  MaxRefs = 4
  NONE = NONE
SPECIFICATION FairSpec
INVARIANTS Exclusion OneObject SleepersBlocked
PROPERTIES WaitersServed
